---- MODULE Spec2Model ----
(***************************************************************************)
(* Unsigned big-number arithmetic of src/arithmetic.c (lines 1-447, the    *)
(* complete revision of the library).                                      *)
(*                                                                         *)
(* A BigNum is the struct { data, len }: `data` is the sequence of blocks, *)
(* least significant first, block offset i of the C code being data[i+1].  *)
(* A null pointer is the record NULL.                                      *)
(*                                                                         *)
(* The C code works on uint32_t blocks with uint64_t intermediates.  The   *)
(* model keeps the code's arithmetic but at a block width of BlockBits     *)
(* bits (intermediates of 2 * BlockBits bits): every reduction the C types *)
(* perform is written out as % BlockBase or % WideBase.                    *)
(***************************************************************************)
EXTENDS Integers, Sequences, FiniteSets, TLC

\* Width of one block in bits (uint32_t in the source, scaled down).
BlockBits == 2

\* Longest second operand under SpecFn, in blocks; the first operand is up
\* to one block longer.
MaxLen == 2

\* Most blocks the caller holds at a time, over all its numbers.
MaxBlocks == 5

\* Number of values of a block: the modulus of uint32_t arithmetic.
BlockBase == 2 ^ BlockBits

\* The modulus of uint64_t arithmetic.
WideBase == BlockBase * BlockBase

BN_BLOCK_MAX == BlockBase - 1

NULL == [null |-> TRUE]

IsNull(p) == "null" \in DOMAIN p

BigNum(len, data) == [len |-> len, data |-> data]

\* A division result: the struct bn_DivideWithRemainderResult.
DivideWithRemainderResult(q, r) == [quotient |-> q, remainder |-> r]

IsDivResult(p) == "quotient" \in DOMAIN p

\* What is left of a value once an assertion has failed or a null pointer has
\* been dereferenced: the process is gone.
ABORTED == [aborted |-> TRUE, len |-> 0, data |-> <<>>]

IsAborted(p) == "aborted" \in DOMAIN p

IsBigNum(p) == "len" \in DOMAIN p /\ ~IsAborted(p)

----
\* Bit operations of the C code on one block.

BitSet(x, bit) == (x \div (2 ^ bit)) % 2 = 1

\* x | (1 << bit)
BitOr(x, bit) == IF BitSet(x, bit) THEN x ELSE (x + 2 ^ bit) % BlockBase

\* x ^ (1 << bit)
BitXor(x, bit) == IF BitSet(x, bit) THEN x - 2 ^ bit ELSE (x + 2 ^ bit) % BlockBase

----
\* Block access.

\* An offset out of bounds reads memory that is not the number's.  The only
\* caller that can pass one is bn_add_block_cascading_unchecked, whose next
\* statement is the bounds assertion of bn_write_block, so the block read
\* there is never used.
bn_get_block_unchecked(n, offset) ==
    IF offset < n.len THEN n.data[offset + 1] ELSE 0

bn_get_block(n, offset) ==
    IF offset < n.len THEN bn_get_block_unchecked(n, offset) ELSE 0

\* assert(offset < n->len) aborts the process when it fails.
bn_write_block(n, offset, value) ==
    IF offset < n.len
    THEN [n EXCEPT !.data[offset + 1] = value]
    ELSE ABORTED

RECURSIVE trimmed_len_loop(_, _)
trimmed_len_loop(n, trimmed_len) ==
    IF trimmed_len > 1 /\ n.data[trimmed_len] = 0
    THEN trimmed_len_loop(n, trimmed_len - 1)
    ELSE trimmed_len

\* bn_trim without the trimming.
bn_trim_untrimmed(n) == n

bn_trim(n) ==
    LET trimmed_len == trimmed_len_loop(n, n.len)
    IN  IF trimmed_len < n.len
        THEN BigNum(trimmed_len, SubSeq(n.data, 1, trimmed_len))
        ELSE n

\* The cascading add that forgets the overflow of the block addition.
RECURSIVE bn_add_block_cascading_no_carry(_, _, _)
bn_add_block_cascading_no_carry(n, offset, value) ==
    IF value > 0
    THEN LET lower_half == value % BlockBase
             upper_half == value \div BlockBase
             block == bn_get_block_unchecked(n, offset)
             block_result_32 == (lower_half + block) % BlockBase
             written == bn_write_block(n, offset, block_result_32)
         IN  bn_add_block_cascading_no_carry(written, offset + 1, upper_half)
    ELSE n

RECURSIVE bn_add_block_cascading_unchecked(_, _, _)
bn_add_block_cascading_unchecked(n, offset, value) ==
    IF value > 0
    THEN LET lower_half == value % BlockBase
             upper_half == value \div BlockBase
             block == bn_get_block_unchecked(n, offset)
             block_result_64 == lower_half + block
             block_result_32 == block_result_64 % BlockBase
             written == bn_write_block(n, offset, block_result_32)
             block_overflow == block_result_64 \div BlockBase
             overflow == upper_half + block_overflow
         IN  bn_add_block_cascading_unchecked(written, offset + 1, overflow)
    ELSE n

Zeros(len) == [i \in 1..len |-> 0]

\* calloc'ed data: all blocks zero.
bn_with_len(len) == BigNum(len, Zeros(len))

----
\* Construction.

bn_zero == BigNum(1, <<0>>)

bn_one == BigNum(1, <<1>>)

bn_from_uint32_t(n) == [bn_zero EXCEPT !.data[1] = n]

bn_copy(orig) == IF IsNull(orig) THEN NULL ELSE BigNum(orig.len, orig.data)

----
\* Text input.  A C string is the record of its characters; the text alphabet
\* is scaled with the block: one decimal digit, one letter digit in each
\* case (so a hex character carries one bit, where the source's carries
\* four), the space, and a character that is none of these.

DecimalChars == <<"0">>

LowerChars == <<"a">>

UpperChars == <<"A">>

CString(chars) == [chars |-> chars]

IndexIn(seq, c) == CHOOSE i \in 1..Len(seq) : seq[i] = c

InRange(seq, c) == \E i \in 1..Len(seq) : seq[i] = c

\* Number of values of a hex character (16 in the source).
NumHexValues == Len(DecimalChars) + Len(LowerChars)

\* Hex characters that fill one block (8 in the source).
HexCharsPerBlock == BlockBits

\* The first loop of bn_from_hex: the number of hex characters, or -1 once a
\* character is neither a hex character nor a space.
RECURSIVE hex_scan(_, _, _)
hex_scan(chars, i, num_hex_chars) ==
    IF i > Len(chars) THEN num_hex_chars
    ELSE IF InRange(DecimalChars, chars[i]) \/ InRange(LowerChars, chars[i])
            \/ InRange(UpperChars, chars[i])
         THEN hex_scan(chars, i + 1, num_hex_chars + 1)
         ELSE IF chars[i] # " " THEN -1
         ELSE hex_scan(chars, i + 1, num_hex_chars)

\* The digit value that forgets the 10 of an upper-case letter.
hex_c_val_upper_offset(c) ==
    IF InRange(DecimalChars, c) THEN IndexIn(DecimalChars, c) - 1
    ELSE IF InRange(LowerChars, c) THEN Len(DecimalChars) + IndexIn(LowerChars, c) - 1
    ELSE IndexIn(UpperChars, c) - 1

hex_c_val(c) ==
    IF InRange(DecimalChars, c) THEN IndexIn(DecimalChars, c) - 1
    ELSE IF InRange(LowerChars, c) THEN Len(DecimalChars) + IndexIn(LowerChars, c) - 1
    ELSE Len(DecimalChars) + IndexIn(UpperChars, c) - 1

\* The second loop of bn_from_hex, from the last character backwards.
RECURSIVE hex_fill(_, _, _, _, _, _)
hex_fill(chars, i, result, block, hex_chars_read, offset) ==
    IF i < 1
    THEN IF hex_chars_read # 0 THEN bn_write_block(result, offset, block) ELSE result
    ELSE IF chars[i] # " "
         THEN LET added == (block + hex_c_val(chars[i]) * NumHexValues ^ hex_chars_read)
                               % BlockBase
              IN  IF hex_chars_read + 1 = HexCharsPerBlock
                  THEN hex_fill(chars, i - 1, bn_write_block(result, offset, added),
                                0, 0, offset + 1)
                  ELSE hex_fill(chars, i - 1, result, added, hex_chars_read + 1, offset)
         ELSE hex_fill(chars, i - 1, result, block, hex_chars_read, offset)

\* bn_from_hex that only refuses a text with an invalid character.
bn_from_hex_accept_empty(str) ==
    IF IsNull(str) THEN NULL
    ELSE LET num_hex_chars == hex_scan(str.chars, 1, 0)
         IN  IF num_hex_chars < 0 THEN NULL
             ELSE LET len == (num_hex_chars + (HexCharsPerBlock - 1)) \div HexCharsPerBlock
                  IN  bn_trim(hex_fill(str.chars, Len(str.chars), bn_with_len(len), 0, 0, 0))

bn_from_hex(str) ==
    IF IsNull(str) THEN NULL
    ELSE LET num_hex_chars == hex_scan(str.chars, 1, 0)
         IN  IF num_hex_chars <= 0 THEN NULL
             ELSE LET len == (num_hex_chars + (HexCharsPerBlock - 1)) \div HexCharsPerBlock
                  IN  bn_trim(hex_fill(str.chars, Len(str.chars), bn_with_len(len), 0, 0, 0))

----
\* Text output: the characters bn_print_hex writes to stdout.

\* The character printf's %X writes for one hex digit.
hex_digit_char_upper(d) ==
    IF d < Len(DecimalChars)
    THEN DecimalChars[d + 1]
    ELSE UpperChars[d - Len(DecimalChars) + 1]

\* The character printf's %x writes for one hex digit.
hex_digit_char(d) ==
    IF d < Len(DecimalChars)
    THEN DecimalChars[d + 1]
    ELSE LowerChars[d - Len(DecimalChars) + 1]

\* printf("%08x", block): `width` digits, most significant first, padded
\* with the digit zero.
\* printf("%x", block): no padding.
RECURSIVE printf_08x_unpadded(_, _)
printf_08x_unpadded(block, width) ==
    IF block < NumHexValues
    THEN <<hex_digit_char(block)>>
    ELSE printf_08x_unpadded(block \div NumHexValues, width - 1)
             \o <<hex_digit_char(block % NumHexValues)>>

RECURSIVE printf_08x(_, _)
printf_08x(block, width) ==
    IF width = 0
    THEN <<>>
    ELSE printf_08x(block \div NumHexValues, width - 1)
             \o <<hex_digit_char(block % NumHexValues)>>

\* The loop of bn_print_hex from offset n->len down to 1: the format is
\* "%08x ", a space after every block.
RECURSIVE bn_print_hex_loop(_, _)
bn_print_hex_loop(n, offset) ==
    IF offset > 0
    THEN printf_08x(bn_get_block_unchecked(n, offset - 1), HexCharsPerBlock)
             \o <<" ">> \o bn_print_hex_loop(n, offset - 1)
    ELSE <<>>

bn_print_hex(n) == bn_print_hex_loop(n, n.len) \o <<"\n">>

----
\* Comparison.

\* The block comparison that starts at the least significant block.
RECURSIVE bn_compare_loop_low_first(_, _, _)
bn_compare_loop_low_first(n1, n2, offset) ==
    IF offset > 0
    THEN LET n1_block == bn_get_block_unchecked(n1, n1.len - offset)
             n2_block == bn_get_block_unchecked(n2, n1.len - offset)
         IN  IF n1_block > n2_block THEN 1
             ELSE IF n1_block < n2_block THEN -1
             ELSE bn_compare_loop_low_first(n1, n2, offset - 1)
    ELSE 0

RECURSIVE bn_compare_loop(_, _, _)
bn_compare_loop(n1, n2, offset) ==
    IF offset > 0
    THEN LET n1_block == bn_get_block_unchecked(n1, offset - 1)
             n2_block == bn_get_block_unchecked(n2, offset - 1)
         IN  IF n1_block > n2_block THEN 1
             ELSE IF n1_block < n2_block THEN -1
             ELSE bn_compare_loop(n1, n2, offset - 1)
    ELSE 0

bn_compare(n1, n2) ==
    IF n1.len > n2.len THEN 1
    ELSE IF n1.len < n2.len THEN -1
    ELSE bn_compare_loop(n1, n2, n1.len)

bn_greater_than(n1, n2) == bn_compare(n1, n2) > 0

\* bn_less_than that also holds of equal operands.
bn_less_than_or_equal(n1, n2) == bn_compare(n1, n2) <= 0

bn_less_than(n1, n2) == bn_compare(n1, n2) < 0

bn_equal_to(n1, n2) == bn_compare(n1, n2) = 0

----
\* Addition.

RECURSIVE bn_add_loop(_, _, _, _, _)
bn_add_loop(n1, n2, result, offset, transfer) ==
    IF offset < result.len
    THEN LET block_result_64 ==
                 (transfer + bn_get_block(n1, offset) + bn_get_block(n2, offset)) % WideBase
             block_result_32 == block_result_64 % BlockBase
             written == bn_write_block(result, offset, block_result_32)
         IN  bn_add_loop(n1, n2, written, offset + 1,
                         IF block_result_32 # block_result_64 THEN 1 ELSE 0)
    ELSE result

\* bn_add that sizes the result by its first operand only.
bn_add_first_len(n1, n2) ==
    LET result_len == n1.len + 1
    IN  bn_trim(bn_add_loop(n1, n2, bn_with_len(result_len), 0, 0))

\* bn_add without the extra block for the final carry.
bn_add_no_extra_block(n1, n2) ==
    LET greater_len == IF n1.len > n2.len THEN n1.len ELSE n2.len
    IN  bn_trim(bn_add_loop(n1, n2, bn_with_len(greater_len), 0, 0))

bn_add(n1, n2) ==
    LET greater_len == IF n1.len > n2.len THEN n1.len ELSE n2.len
        result_len == greater_len + 1
    IN  bn_trim(bn_add_loop(n1, n2, bn_with_len(result_len), 0, 0))

----
\* Subtraction.

\* The subtraction loop that resets the transfer even when adding it to the
\* block of n2 overflowed.
RECURSIVE bn_subtract_loop_reset(_, _, _, _, _)
bn_subtract_loop_reset(n1, n2, result, offset, transfer) ==
    IF offset < n1.len
    THEN LET n1_block == bn_get_block_unchecked(n1, offset)
             n2_block == (bn_get_block(n2, offset) + transfer) % BlockBase
             block_diff == IF n1_block >= n2_block
                           THEN n1_block - n2_block
                           ELSE (BN_BLOCK_MAX - n2_block + 1 + n1_block) % BlockBase
             next == IF n1_block >= n2_block THEN 0 ELSE 1
         IN  bn_subtract_loop_reset(n1, n2, bn_write_block(result, offset, block_diff),
                                    offset + 1, next)
    ELSE result

RECURSIVE bn_subtract_loop(_, _, _, _, _)
bn_subtract_loop(n1, n2, result, offset, transfer) ==
    IF offset < n1.len
    THEN LET n1_block == bn_get_block_unchecked(n1, offset)
             n2_read == bn_get_block(n2, offset)
             \* n2_block += transfer, in uint32_t
             n2_block == IF transfer # 0 THEN (n2_read + transfer) % BlockBase ELSE n2_read
             \* transfer is reset only if the addition did not overflow
             kept == IF transfer # 0 /\ n2_block # 0 THEN 0 ELSE transfer
             block_diff == IF n1_block >= n2_block
                           THEN n1_block - n2_block
                           ELSE (BN_BLOCK_MAX - n2_block + 1 + n1_block) % BlockBase
             next == IF n1_block >= n2_block THEN kept ELSE 1
         IN  bn_subtract_loop(n1, n2, bn_write_block(result, offset, block_diff),
                              offset + 1, next)
    ELSE result

\* bn_subtract that also refuses equal operands.
bn_subtract_refuse_equal(n1, n2) ==
    IF bn_compare(n2, n1) >= 0
    THEN NULL
    ELSE bn_trim(bn_subtract_loop(n1, n2, bn_with_len(n1.len), 0, 0))

bn_subtract(n1, n2) ==
    IF bn_greater_than(n2, n1)
    THEN NULL
    ELSE bn_trim(bn_subtract_loop(n1, n2, bn_with_len(n1.len), 0, 0))

----
\* Multiplication.

\* The unchecked accesses of a pass stay inside the result, which has
\* n1.len + n2.len blocks; one outside it would end the process.
RECURSIVE bn_multiply_inner(_, _, _, _, _)
bn_multiply_inner(n1, n2, result, n1_offset, n2_offset) ==
    IF n2_offset < n2.len
    THEN LET result_offset == n1_offset + n2_offset
             n1_block == bn_get_block_unchecked(n1, n1_offset)
             n2_block == bn_get_block_unchecked(n2, n2_offset)
             block_result == (n1_block * n2_block) % WideBase
         IN  IF result_offset < result.len
             THEN bn_multiply_inner(n1, n2,
                      bn_add_block_cascading_unchecked(result, result_offset,
                                                       block_result),
                      n1_offset, n2_offset + 1)
             ELSE ABORTED
    ELSE result

RECURSIVE bn_multiply_outer(_, _, _, _)
bn_multiply_outer(n1, n2, result, n1_offset) ==
    IF n1_offset < n1.len
    THEN bn_multiply_outer(n1, n2, bn_multiply_inner(n1, n2, result, n1_offset, 0),
                           n1_offset + 1)
    ELSE result

\* bn_multiply with a result of one block less than n1.len + n2.len.
bn_multiply_short_result(n1, n2) ==
    LET result_len == n1.len + n2.len - 1
    IN  bn_trim(bn_multiply_outer(n1, n2, bn_with_len(result_len), 0))

\* bn_multiply without the trim of the result.
bn_multiply_untrimmed(n1, n2) ==
    LET result_len == n1.len + n2.len
    IN  bn_multiply_outer(n1, n2, bn_with_len(result_len), 0)

bn_multiply(n1, n2) ==
    LET result_len == n1.len + n2.len
    IN  bn_trim(bn_multiply_outer(n1, n2, bn_with_len(result_len), 0))

----
\* Division with remainder.

\* The bit search of the block quotient: bit_offset runs from the top bit of
\* a block down to 0.
\* The bit search that never tries the lowest bit.
RECURSIVE block_quotient_search_skip_low(_, _, _, _)
block_quotient_search_skip_low(block_quotient, remainder, n2, bit_offset) ==
    IF bit_offset > 0
    THEN LET set == BitOr(block_quotient, bit_offset)
             product == bn_multiply(BigNum(1, <<set>>), n2)
             kept == IF bn_greater_than(product, remainder)
                     THEN BitXor(set, bit_offset)
                     ELSE set
         IN  IF IsAborted(product) THEN -1
             ELSE block_quotient_search_skip_low(kept, remainder, n2, bit_offset - 1)
    ELSE block_quotient

\* The result is -1 once a trial product has aborted the process.
RECURSIVE block_quotient_search(_, _, _, _)
block_quotient_search(block_quotient, remainder, n2, bit_offset) ==
    IF bit_offset >= 0
    THEN LET set == BitOr(block_quotient, bit_offset)
             product == bn_multiply(BigNum(1, <<set>>), n2)
             kept == IF bn_greater_than(product, remainder)
                     THEN BitXor(set, bit_offset)
                     ELSE set
         IN  IF IsAborted(product) THEN -1
             ELSE block_quotient_search(kept, remainder, n2, bit_offset - 1)
    ELSE block_quotient

\* The pass of the outer loop that does not trim the shifted remainder.
bn_divide_step_untrimmed(n1, n2, st, offset) ==
    LET shifted == BigNum(st.remainder.len + 1,
                          <<n1.data[offset + 1]>> \o st.remainder.data)
    IN  IF bn_compare(shifted, n2) >= 0
        THEN LET block_quotient == block_quotient_search(0, shifted, n2, BlockBits - 1)
                 product == bn_multiply(BigNum(1, <<block_quotient>>), n2)
                 new_remainder == bn_subtract(shifted, product)
             IN  IF block_quotient < 0 \/ IsAborted(product)
                 THEN [quotient |-> ABORTED, remainder |-> ABORTED]
                 ELSE [quotient |-> bn_write_block(st.quotient, offset, block_quotient),
                       remainder |-> IF IsNull(new_remainder) THEN ABORTED
                                     ELSE new_remainder]
        ELSE [quotient |-> st.quotient, remainder |-> shifted]

\* One pass of the outer loop over the blocks of n1; st is the pair of
\* quotient and remainder.  A remainder that bn_subtract refused is a null
\* pointer, which the next statement that uses it dereferences.
bn_divide_step(n1, n2, st, offset) ==
    LET shifted == bn_trim(BigNum(st.remainder.len + 1,
                                  <<n1.data[offset + 1]>> \o st.remainder.data))
    IN  IF bn_compare(shifted, n2) >= 0
        THEN LET block_quotient == block_quotient_search(0, shifted, n2, BlockBits - 1)
                 product == bn_multiply(BigNum(1, <<block_quotient>>), n2)
                 new_remainder == bn_subtract(shifted, product)
             IN  IF block_quotient < 0 \/ IsAborted(product)
                 THEN [quotient |-> ABORTED, remainder |-> ABORTED]
                 ELSE [quotient |-> bn_write_block(st.quotient, offset, block_quotient),
                       remainder |-> IF IsNull(new_remainder) THEN ABORTED
                                     ELSE new_remainder]
        ELSE [quotient |-> st.quotient, remainder |-> shifted]

RECURSIVE bn_divide_loop(_, _, _, _)
bn_divide_loop(n1, n2, st, _offset) ==
    IF _offset > 0 /\ ~IsAborted(st.quotient) /\ ~IsAborted(st.remainder)
    THEN bn_divide_loop(n1, n2, bn_divide_step(n1, n2, st, _offset - 1), _offset - 1)
    ELSE st

\* bn_divide_with_remainder with a quotient of one block less when n1 is
\* longer than n2.
bn_divide_with_remainder_short_quotient(n1, n2) ==
    IF n2.len = 1 /\ n2.data[1] = 0
    THEN NULL
    ELSE LET quotient_len == IF n1.len > n2.len THEN n1.len - n2.len ELSE 1
             st == bn_divide_loop(n1, n2,
                       [quotient |-> bn_with_len(quotient_len), remainder |-> bn_zero],
                       n1.len)
         IN  IF IsAborted(st.quotient) \/ IsAborted(st.remainder)
             THEN ABORTED
             ELSE DivideWithRemainderResult(bn_trim(st.quotient), bn_trim(st.remainder))

\* bn_divide_with_remainder that takes a divisor for zero when its lowest
\* block is zero.
bn_divide_with_remainder_low_block(n1, n2) ==
    IF n2.data[1] = 0
    THEN NULL
    ELSE LET quotient_len == IF n1.len > n2.len THEN n1.len - (n2.len - 1) ELSE 1
             st == bn_divide_loop(n1, n2,
                       [quotient |-> bn_with_len(quotient_len), remainder |-> bn_zero],
                       n1.len)
         IN  IF IsAborted(st.quotient) \/ IsAborted(st.remainder)
             THEN ABORTED
             ELSE DivideWithRemainderResult(bn_trim(st.quotient), bn_trim(st.remainder))

bn_divide_with_remainder(n1, n2) ==
    IF n2.len = 1 /\ n2.data[1] = 0
    THEN NULL
    ELSE LET quotient_len == IF n1.len > n2.len THEN n1.len - (n2.len - 1) ELSE 1
             st == bn_divide_loop(n1, n2,
                       [quotient |-> bn_with_len(quotient_len), remainder |-> bn_zero],
                       n1.len)
         IN  IF IsAborted(st.quotient) \/ IsAborted(st.remainder)
             THEN ABORTED
             ELSE DivideWithRemainderResult(bn_trim(st.quotient), bn_trim(st.remainder))

bn_divide(n1, n2) ==
    LET result == bn_divide_with_remainder(n1, n2)
    IN  IF IsNull(result) THEN NULL
        ELSE IF IsAborted(result) THEN ABORTED
        ELSE result.quotient

\* bn_mod that hands out the quotient of the result instead of the remainder.
bn_mod_keep_quotient(n1, n2) ==
    LET result == bn_divide_with_remainder(n1, n2)
    IN  IF IsNull(result) THEN NULL
        ELSE IF IsAborted(result) THEN ABORTED
        ELSE result.quotient

bn_mod(n1, n2) ==
    LET result == bn_divide_with_remainder(n1, n2)
    IN  IF IsNull(result) THEN NULL
        ELSE IF IsAborted(result) THEN ABORTED
        ELSE result.remainder

----
\* Modular exponentiation.

\* The pass of the inner loop that does not skip the leading zero bits.
bn_power_mod_bit_no_skip(base, mod, st, bit) ==
    LET squared == bn_multiply(st.result, st.result)
        multiplied == IF bit THEN bn_multiply(squared, base) ELSE squared
    IN  [result |-> bn_mod(multiplied, mod), search_start |-> FALSE]

\* One pass of the inner loop: st is the pair of result and search_start.
bn_power_mod_bit(base, mod, st, bit) ==
    IF (st.search_start /\ ~bit) \/ IsAborted(st.result)
    THEN st
    ELSE LET squared == bn_multiply(st.result, st.result)
             multiplied == IF bit /\ ~IsAborted(squared)
                           THEN bn_multiply(squared, base)
                           ELSE squared
         IN  [result |-> IF IsAborted(multiplied) THEN ABORTED
                         ELSE bn_mod(multiplied, mod),
              search_start |-> FALSE]

RECURSIVE bn_power_mod_bits(_, _, _, _, _)
bn_power_mod_bits(base, mod, st, exp_block, exp_bit_offset) ==
    IF exp_bit_offset >= 0
    THEN bn_power_mod_bits(base, mod,
             bn_power_mod_bit(base, mod, st, BitSet(exp_block, exp_bit_offset)),
             exp_block, exp_bit_offset - 1)
    ELSE st

RECURSIVE bn_power_mod_blocks(_, _, _, _, _)
bn_power_mod_blocks(base, exp, mod, st, _exp_offset) ==
    IF _exp_offset > 0
    THEN bn_power_mod_blocks(base, exp, mod,
             bn_power_mod_bits(base, mod, st, exp.data[_exp_offset], BlockBits - 1),
             _exp_offset - 1)
    ELSE st

bn_power_mod(base, exp, mod) ==
    IF mod.len = 1 /\ mod.data[1] = 0
    THEN NULL
    ELSE bn_trim(bn_power_mod_blocks(base, exp, mod,
                     [result |-> bn_one, search_start |-> TRUE], exp.len).result)

----
\* The heap.  A memory m is the record of its cells, of whether realloc
\* moves a buffer, and of the fault that has ended the process, if any.  A
\* cell is one allocation: a struct BigNum, a buffer of blocks, or a struct
\* bn_DivideWithRemainderResult.  An address is the index of a cell, 0 the
\* null pointer; the cells past the last one are free.

FreeCell == [kind |-> "free"]

BigNumCell(len, data) == [kind |-> "BigNum", len |-> len, data |-> data]

BlocksCell(blocks) == [kind |-> "blocks", blocks |-> blocks]

ResultCell(quotient, remainder) ==
    [kind |-> "result", quotient |-> quotient, remainder |-> remainder]

\* What an operation on the memory gives back: the memory it leaves and the
\* pointer (or the int) it returns.
Out(m, p) == [mem |-> m, ptr |-> p]

IsLive(m, a) == a \in 1..Len(m.cells) /\ m.cells[a].kind # "free"

IsKind(m, a, kind) == a \in 1..Len(m.cells) /\ m.cells[a].kind = kind

Fault(m, what) == IF m.fault = "none" THEN [m EXCEPT !.fault = what] ELSE m

\* The address malloc returns: one that is not live.
malloc(m) ==
    IF \E a \in 1..Len(m.cells) : ~IsLive(m, a)
    THEN CHOOSE a \in 1..Len(m.cells) :
             ~IsLive(m, a) /\ \A b \in 1..(a - 1) : IsLive(m, b)
    ELSE Len(m.cells) + 1

\* The memory after malloc has returned the address a for the cell.
Allocate(m, a, cell) ==
    IF a = Len(m.cells) + 1
    THEN [m EXCEPT !.cells = Append(m.cells, cell)]
    ELSE [m EXCEPT !.cells[a] = cell]

RECURSIVE Shrink(_)
Shrink(cells) ==
    IF Len(cells) > 0 /\ cells[Len(cells)].kind = "free"
    THEN Shrink(SubSeq(cells, 1, Len(cells) - 1))
    ELSE cells

\* free(a): nothing for a null pointer; freeing what is not live is a fault.
free(m, a) ==
    IF a = 0 THEN m
    ELSE IF ~IsLive(m, a) THEN Fault(m, "double free")
    ELSE [m EXCEPT !.cells = Shrink([m.cells EXCEPT ![a] = FreeCell])]

\* The memory after a dereference of the BigNum pointer n: a fault when n
\* is null or does not point to a live BigNum with a live buffer.
Deref(m, n) ==
    IF n = 0 THEN Fault(m, "null dereference")
    ELSE IF ~IsKind(m, n, "BigNum") \/ ~IsKind(m, m.cells[n].data, "blocks")
         THEN Fault(m, "use after free")
         ELSE m

IsNum(m, n) == IsKind(m, n, "BigNum") /\ IsKind(m, m.cells[n].data, "blocks")

\* The BigNum that n points to: its len and the blocks of its buffer.
NumAt(m, n) ==
    IF IsNum(m, n)
    THEN BigNum(m.cells[n].len, m.cells[m.cells[n].data].blocks)
    ELSE bn_zero

\* The memory after the blocks of the buffer of n have been written.
WriteBlocks(m, n, blocks) ==
    IF IsNum(m, n)
    THEN [m EXCEPT !.cells[m.cells[n].data] = BlocksCell(blocks)]
    ELSE Deref(m, n)

\* n->data = realloc(n->data, ...); n->len = len: the buffer of n gets the
\* blocks, in place or in a new allocation after which the old one is freed.
Realloc(m, n, blocks) ==
    IF ~IsNum(m, n) THEN Deref(m, n)
    ELSE IF m.moves
         THEN LET old == m.cells[n].data
                  new == malloc(m)
                  m1 == Allocate(m, new, BlocksCell(blocks))
                  m2 == [m1 EXCEPT !.cells[n] = BigNumCell(Len(blocks), new)]
              IN  free(m2, old)
         ELSE [m EXCEPT !.cells[m.cells[n].data] = BlocksCell(blocks),
                        !.cells[n] = BigNumCell(Len(blocks), m.cells[n].data)]

bn_trim_mem(m, n) ==
    LET trimmed(num, trimmed_len) ==
            IF trimmed_len < num.len
            THEN Realloc(m, n, SubSeq(num.data, 1, trimmed_len))
            ELSE m
        counted(num) == trimmed(num, trimmed_len_loop(num, num.len))
    IN  IF ~IsNum(m, n) THEN Deref(m, n) ELSE counted(NumAt(m, n))

\* malloc of the struct, then the allocation of the buffer.
NewNum(m, blocks) ==
    LET bn == malloc(m)
        m1 == Allocate(m, bn, BigNumCell(Len(blocks), 0))
        data == malloc(m1)
        m2 == Allocate(m1, data, BlocksCell(blocks))
    IN  Out([m2 EXCEPT !.cells[bn].data = data], bn)

bn_with_len_mem(m, len) == NewNum(m, Zeros(len))

bn_destroy_mem(m, n) ==
    IF ~IsKind(m, n, "BigNum") THEN Deref(m, n)
    ELSE free(free(m, m.cells[n].data), n)

bn_copy_mem(m, orig) ==
    IF orig = 0 THEN Out(m, 0)
    ELSE LET made == NewNum(m, NumAt(m, orig).data)
         IN  Out(Deref(made.mem, orig), made.ptr)

bn_zero_mem(m) == NewNum(m, bn_zero.data)

bn_one_mem(m) == NewNum(m, bn_one.data)

bn_from_uint32_t_mem(m, n) ==
    LET made == bn_zero_mem(m)
    IN  Out(WriteBlocks(made.mem, made.ptr, <<n>>), made.ptr)

\* The blocks that a loop of bn_write_block calls has left in a result, or
\* the fault of the assertion.
Written(m, result, filled) ==
    IF IsAborted(filled)
    THEN Fault(m, "assertion")
    ELSE WriteBlocks(m, result, filled.data)

bn_from_hex_mem(m, str) ==
    IF IsNull(str) THEN Out(m, 0)
    ELSE LET num_hex_chars == hex_scan(str.chars, 1, 0)
         IN  IF num_hex_chars <= 0 THEN Out(m, 0)
             ELSE LET len == (num_hex_chars + (HexCharsPerBlock - 1)) \div HexCharsPerBlock
                      made == bn_with_len_mem(m, len)
                      filled == hex_fill(str.chars, Len(str.chars),
                                         NumAt(made.mem, made.ptr), 0, 0, 0)
                  IN  Out(bn_trim_mem(Written(made.mem, made.ptr, filled), made.ptr),
                          made.ptr)

\* bn_print_hex and bn_compare only read: the memory after their reads.
bn_print_hex_mem(m, n) == Deref(m, n)

bn_compare_mem(m, n1, n2) == Deref(Deref(m, n1), n2)

\* bn_add that returns its first operand when the second is zero.
bn_add_mem_reuse_operand(m, n1, n2) ==
    IF NumAt(m, n2) = bn_zero
    THEN Out(Deref(Deref(m, n1), n2), n1)
    ELSE LET greater_len == IF NumAt(m, n1).len > NumAt(m, n2).len
                            THEN NumAt(m, n1).len ELSE NumAt(m, n2).len
             result_len == greater_len + 1
             made == bn_with_len_mem(Deref(Deref(m, n1), n2), result_len)
             filled == bn_add_loop(NumAt(made.mem, n1), NumAt(made.mem, n2),
                                   NumAt(made.mem, made.ptr), 0, 0)
         IN  Out(bn_trim_mem(Written(made.mem, made.ptr, filled), made.ptr), made.ptr)

bn_add_mem(m, n1, n2) ==
    LET greater_len == IF NumAt(m, n1).len > NumAt(m, n2).len
                       THEN NumAt(m, n1).len ELSE NumAt(m, n2).len
        result_len == greater_len + 1
        made == bn_with_len_mem(Deref(Deref(m, n1), n2), result_len)
        filled == bn_add_loop(NumAt(made.mem, n1), NumAt(made.mem, n2),
                              NumAt(made.mem, made.ptr), 0, 0)
    IN  Out(bn_trim_mem(Written(made.mem, made.ptr, filled), made.ptr), made.ptr)

\* bn_subtract that stores the difference in its first operand.
bn_subtract_mem_in_place(m, n1, n2) ==
    IF bn_greater_than(NumAt(m, n2), NumAt(m, n1))
    THEN Out(bn_compare_mem(m, n2, n1), 0)
    ELSE LET m1 == bn_compare_mem(m, n2, n1)
             filled == bn_subtract_loop(NumAt(m1, n1), NumAt(m1, n2), NumAt(m1, n1), 0, 0)
         IN  Out(bn_trim_mem(Written(m1, n1, filled), n1), n1)

bn_subtract_mem(m, n1, n2) ==
    IF bn_greater_than(NumAt(m, n2), NumAt(m, n1))
    THEN Out(bn_compare_mem(m, n2, n1), 0)
    ELSE LET made == bn_with_len_mem(bn_compare_mem(m, n2, n1), NumAt(m, n1).len)
             filled == bn_subtract_loop(NumAt(made.mem, n1), NumAt(made.mem, n2),
                                        NumAt(made.mem, made.ptr), 0, 0)
         IN  Out(bn_trim_mem(Written(made.mem, made.ptr, filled), made.ptr), made.ptr)

bn_multiply_mem(m, n1, n2) ==
    LET trimmed(result, m1) ==
            IF m1.fault # "none" THEN Out(m1, result)
            ELSE Out(bn_trim_mem(m1, result), result)
        filled(made) ==
            IF made.mem.fault # "none" THEN made
            ELSE trimmed(made.ptr,
                         Written(made.mem, made.ptr,
                                 bn_multiply_outer(NumAt(m, n1), NumAt(m, n2),
                                                   NumAt(made.mem, made.ptr), 0)))
    IN  filled(bn_with_len_mem(Deref(Deref(m, n1), n2),
                               NumAt(m, n1).len + NumAt(m, n2).len))

\* The bit search of the block quotient, on the memory: every trial product
\* is a new number that is destroyed at the end of its pass.  A fault ends
\* the call: nothing after it runs.
RECURSIVE block_quotient_search_mem(_, _, _, _, _)
block_quotient_search_mem(m, block_quotient, remainder, n2, bit_offset) ==
    LET set == BitOr(NumAt(m, block_quotient).data[1], bit_offset)
        flipped(product, m2) ==
            IF bn_greater_than(NumAt(m2, product.ptr), NumAt(m2, remainder))
            THEN WriteBlocks(m2, block_quotient, <<BitXor(set, bit_offset)>>)
            ELSE m2
        pass(product) ==
            IF product.mem.fault # "none" THEN product.mem
            ELSE block_quotient_search_mem(
                     bn_destroy_mem(
                         flipped(product,
                                 bn_compare_mem(product.mem, product.ptr, remainder)),
                         product.ptr),
                     block_quotient, remainder, n2, bit_offset - 1)
    IN  IF bit_offset >= 0 /\ m.fault = "none"
        THEN pass(bn_multiply_mem(WriteBlocks(m, block_quotient, <<set>>),
                                  block_quotient, n2))
        ELSE m

\* The end of a pass of the outer loop that found n2 <= remainder: the
\* product is subtracted from the remainder, the block is written to the
\* quotient and the old remainder and the product are destroyed.
bn_divide_step_end_mem(n2, st, offset, product) ==
    LET written(m5) ==
            Written(m5, st.quotient,
                    bn_write_block(NumAt(m5, st.quotient), offset,
                                   NumAt(m5, st.block_quotient).data[1]))
        replaced(new_remainder) ==
            IF new_remainder.mem.fault # "none"
            THEN [st EXCEPT !.mem = new_remainder.mem]
            ELSE [st EXCEPT
                     !.mem = bn_destroy_mem(
                                 written(bn_destroy_mem(new_remainder.mem, st.remainder)),
                                 product.ptr),
                     !.remainder = new_remainder.ptr]
    IN  IF product.mem.fault # "none"
        THEN [st EXCEPT !.mem = product.mem]
        ELSE replaced(bn_subtract_mem(product.mem, st.remainder, product.ptr))

\* One pass of the outer loop of bn_divide_with_remainder on the memory: st
\* is the memory with the pointers quotient, remainder and block_quotient.
bn_divide_step_mem(n1, n2, st, offset) ==
    LET shifted == <<bn_get_block(NumAt(st.mem, n1), offset)>>
                       \o NumAt(st.mem, st.remainder).data
        searched(m4) ==
            IF m4.fault # "none" THEN [st EXCEPT !.mem = m4]
            ELSE bn_divide_step_end_mem(n2, st, offset,
                                        bn_multiply_mem(m4, st.block_quotient, n2))
        compared(m2) ==
            IF m2.fault = "none"
               /\ bn_compare(NumAt(m2, st.remainder), NumAt(m2, n2)) >= 0
            THEN searched(block_quotient_search_mem(
                              WriteBlocks(m2, st.block_quotient, <<0>>),
                              st.block_quotient, st.remainder, n2, BlockBits - 1))
            ELSE [st EXCEPT !.mem = m2]
    IN  compared(bn_compare_mem(
                     bn_trim_mem(Realloc(st.mem, st.remainder, shifted), st.remainder),
                     st.remainder, n2))

RECURSIVE bn_divide_loop_mem(_, _, _, _)
bn_divide_loop_mem(n1, n2, st, _offset) ==
    IF _offset > 0 /\ st.mem.fault = "none"
    THEN bn_divide_loop_mem(n1, n2, bn_divide_step_mem(n1, n2, st, _offset - 1),
                            _offset - 1)
    ELSE st

bn_divide_with_remainder_mem(m, n1, n2) ==
    LET n1_len == NumAt(m, n1).len
        n2_len == NumAt(m, n2).len
        quotient_len == IF n1_len > n2_len THEN n1_len - (n2_len - 1) ELSE 1
        result(m2, quotient, remainder) ==
            IF m2.fault # "none" THEN Out(m2, 0)
            ELSE Out(Allocate(m2, malloc(m2), ResultCell(quotient, remainder)),
                     malloc(m2))
        trimmed(st) ==
            IF st.mem.fault # "none" THEN Out(st.mem, 0)
            ELSE result(bn_trim_mem(bn_trim_mem(bn_destroy_mem(st.mem,
                                                               st.block_quotient),
                                                st.quotient),
                                    st.remainder),
                        st.quotient, st.remainder)
        loop(quotient, remainder, block_quotient) ==
            trimmed(bn_divide_loop_mem(n1, n2,
                        [mem |-> block_quotient.mem, quotient |-> quotient.ptr,
                         remainder |-> remainder.ptr,
                         block_quotient |-> block_quotient.ptr],
                        n1_len))
        scratch(quotient, remainder) ==
            loop(quotient, remainder, bn_zero_mem(remainder.mem))
        start(quotient) == scratch(quotient, bn_zero_mem(quotient.mem))
    IN  IF NumAt(m, n2).len = 1 /\ NumAt(m, n2).data[1] = 0
        THEN Out(Deref(m, n2), 0)
        ELSE start(bn_with_len_mem(Deref(Deref(m, n2), n1), quotient_len))

\* bn_divide that leaves the remainder of the division result alive.
bn_divide_mem_keep_remainder(m, n1, n2) ==
    LET quotient(result) ==
            IF result.ptr = 0 \/ ~IsKind(result.mem, result.ptr, "result")
            THEN Out(result.mem, 0)
            ELSE Out(free(result.mem, result.ptr),
                     result.mem.cells[result.ptr].quotient)
    IN  quotient(bn_divide_with_remainder_mem(m, n1, n2))

bn_divide_mem(m, n1, n2) ==
    LET quotient(result) ==
            IF result.ptr = 0 \/ ~IsKind(result.mem, result.ptr, "result")
            THEN Out(result.mem, 0)
            ELSE Out(free(bn_destroy_mem(result.mem,
                                         result.mem.cells[result.ptr].remainder),
                          result.ptr),
                     result.mem.cells[result.ptr].quotient)
    IN  quotient(bn_divide_with_remainder_mem(m, n1, n2))

bn_mod_mem(m, n1, n2) ==
    LET remainder(result) ==
            IF result.ptr = 0 \/ ~IsKind(result.mem, result.ptr, "result")
            THEN Out(result.mem, 0)
            ELSE Out(free(bn_destroy_mem(result.mem,
                                         result.mem.cells[result.ptr].quotient),
                          result.ptr),
                     result.mem.cells[result.ptr].remainder)
    IN  remainder(bn_divide_with_remainder_mem(m, n1, n2))

\* The end of a pass of the inner loop of bn_power_mod: the reduction of
\* the number `multiplied` and its destruction.
bn_power_mod_reduce_mem(mod, st, multiplied) ==
    LET replaced(reduced) ==
            IF reduced.mem.fault # "none"
            THEN [st EXCEPT !.mem = reduced.mem]
            ELSE [mem |-> bn_destroy_mem(reduced.mem, multiplied.ptr),
                  result |-> reduced.ptr, search_start |-> FALSE]
    IN  IF multiplied.mem.fault # "none"
        THEN [st EXCEPT !.mem = multiplied.mem]
        ELSE replaced(bn_mod_mem(multiplied.mem, multiplied.ptr, mod))

\* One pass of the inner loop of bn_power_mod on the memory: st is the
\* memory with the pointer result and search_start.  A fault ends the call:
\* nothing after it runs.
bn_power_mod_bit_mem(base, mod, st, bit) ==
    LET by_base(squared, multiplied) ==
            IF multiplied.mem.fault # "none"
            THEN multiplied
            ELSE Out(bn_destroy_mem(multiplied.mem, squared.ptr), multiplied.ptr)
        replaced(squared, m1) ==
            IF bit /\ m1.fault = "none"
            THEN by_base(squared, bn_multiply_mem(m1, squared.ptr, base))
            ELSE Out(m1, squared.ptr)
        square(squared) ==
            IF squared.mem.fault # "none"
            THEN squared
            ELSE replaced(squared, bn_destroy_mem(squared.mem, st.result))
    IN  IF st.search_start /\ ~bit
        THEN st
        ELSE bn_power_mod_reduce_mem(mod, st,
                 square(bn_multiply_mem(st.mem, st.result, st.result)))

RECURSIVE bn_power_mod_bits_mem(_, _, _, _, _)
bn_power_mod_bits_mem(base, mod, st, exp_block, exp_bit_offset) ==
    IF exp_bit_offset >= 0 /\ st.mem.fault = "none"
    THEN bn_power_mod_bits_mem(base, mod,
             bn_power_mod_bit_mem(base, mod, st, BitSet(exp_block, exp_bit_offset)),
             exp_block, exp_bit_offset - 1)
    ELSE st

RECURSIVE bn_power_mod_blocks_mem(_, _, _, _, _)
bn_power_mod_blocks_mem(base, exp, mod, st, _exp_offset) ==
    IF _exp_offset > 0 /\ st.mem.fault = "none"
    THEN bn_power_mod_blocks_mem(base, exp, mod,
             bn_power_mod_bits_mem(base, mod, st,
                                   bn_get_block(NumAt(st.mem, exp), _exp_offset - 1),
                                   BlockBits - 1),
             _exp_offset - 1)
    ELSE st

bn_power_mod_mem(m, base, exp, mod) ==
    LET trimmed(st) ==
            IF st.mem.fault # "none" THEN Out(st.mem, st.result)
            ELSE Out(bn_trim_mem(st.mem, st.result), st.result)
        loop(one) ==
            trimmed(bn_power_mod_blocks_mem(base, exp, mod,
                        [mem |-> one.mem, result |-> one.ptr, search_start |-> TRUE],
                        NumAt(m, exp).len))
    IN  IF NumAt(m, mod).len = 1 /\ NumAt(m, mod).data[1] = 0
        THEN Out(Deref(m, mod), 0)
        ELSE loop(bn_one_mem(Deref(Deref(m, mod), exp)))

----
\* The caller.  It holds up to three numbers n1, n2, n3 (null until it has
\* constructed them), calls one operation at a time on them, and then keeps
\* the returned number in one of the three or destroys it.  It also holds a
\* text that it parses, out is what has been written to stdout, and mem is
\* the heap (left empty where the caller's numbers stand for themselves).
\* frame holds the local variables of a call that is followed statement by
\* statement: null before the first such call, and after a call the values
\* it returned with.

VARIABLES n1, n2, n3, pc, op, ret, text, out, mem, frame

vars == <<n1, n2, n3, pc, op, ret, text, out, mem, frame>>

\* The heap before anything is allocated.
EmptyMem == [cells |-> <<>>, moves |-> FALSE, fault |-> "none"]

\* The blocks of the numbers the caller works on: the two smallest and the
\* two largest values of a block (at a width of 2 bits, every value).
BlockSamples == {0, 1, BN_BLOCK_MAX - 1, BN_BLOCK_MAX}

Canonical(len) ==
    {BigNum(len, d) : d \in {x \in [1..len -> BlockSamples] : len = 1 \/ x[len] # 0}}

BigNums(maxlen) == UNION {Canonical(len) : len \in 1..maxlen}

\* The texts the caller parses.
HexTexts ==
    { NULL,
      CString(<<>>),
      CString(<<" ">>),
      CString(<<"g">>),
      CString(<<"a", "g", "0">>),
      CString(<<"0">>),
      CString(<<"a">>),
      CString(<<"A", "0">>),
      CString(<<"0", "0", "0">>),
      CString(<<" ", "a", " ", "a", "A">>),
      CString(<<"A", "0", "0", "0", "a">>) }

Returned(name, value) ==
    /\ pc' = IF IsAborted(value) THEN "aborted" ELSE "returned"
    /\ op' = name
    /\ ret' = value
    /\ UNCHANGED <<n1, n2, n3, text, out, mem, frame>>

Init ==
    /\ n1 = NULL
    /\ n2 = NULL
    /\ n3 = NULL
    /\ pc = "idle"
    /\ op = "none"
    /\ ret = NULL
    /\ text = NULL
    /\ out = <<>>
    /\ mem = EmptyMem
    /\ frame = NULL

Zero ==
    /\ pc = "idle"
    /\ Returned("bn_zero", bn_zero)

One ==
    /\ pc = "idle"
    /\ Returned("bn_one", bn_one)

FromUint32(n) ==
    /\ pc = "idle"
    /\ Returned("bn_from_uint32_t", bn_from_uint32_t(n))

FromHex(str) ==
    /\ pc = "idle"
    /\ Returned("bn_from_hex", bn_from_hex(str))

Add ==
    /\ pc = "idle"
    /\ ~IsNull(n1) /\ ~IsNull(n2)
    /\ Returned("bn_add", bn_add(n1, n2))

Subtract ==
    /\ pc = "idle"
    /\ ~IsNull(n1) /\ ~IsNull(n2)
    /\ Returned("bn_subtract", bn_subtract(n1, n2))

Multiply ==
    /\ pc = "idle"
    /\ ~IsNull(n1) /\ ~IsNull(n2)
    /\ Returned("bn_multiply", bn_multiply(n1, n2))

DivideWithRemainder ==
    /\ pc = "idle"
    /\ ~IsNull(n1) /\ ~IsNull(n2)
    /\ Returned("bn_divide_with_remainder", bn_divide_with_remainder(n1, n2))

Divide ==
    /\ pc = "idle"
    /\ ~IsNull(n1) /\ ~IsNull(n2)
    /\ Returned("bn_divide", bn_divide(n1, n2))

Mod ==
    /\ pc = "idle"
    /\ ~IsNull(n1) /\ ~IsNull(n2)
    /\ Returned("bn_mod", bn_mod(n1, n2))

\* The caller's n3 is the base, n2 the exponent and n1 the modulus.
PowerMod ==
    /\ pc = "idle"
    /\ ~IsNull(n1) /\ ~IsNull(n2) /\ ~IsNull(n3)
    /\ Returned("bn_power_mod", bn_power_mod(n3, n2, n1))

HeldLen(n) == IF IsNull(n) THEN 0 ELSE n.len

\* The caller keeps the number `value` it got back in its variable d, in
\* place of the number it held there.
KeepIn(d, value) ==
    /\ pc = "returned"
    /\ IsBigNum(value)
    /\ \A i \in 1..value.len : value.data[i] \in BlockSamples
    /\ value.len + (IF d = 1 THEN 0 ELSE HeldLen(n1))
                 + (IF d = 2 THEN 0 ELSE HeldLen(n2))
                 + (IF d = 3 THEN 0 ELSE HeldLen(n3)) <= MaxBlocks
    /\ n1' = IF d = 1 THEN value ELSE n1
    /\ n2' = IF d = 2 THEN value ELSE n2
    /\ n3' = IF d = 3 THEN value ELSE n3
    /\ pc' = "idle"
    /\ op' = "none"
    /\ ret' = NULL
    /\ UNCHANGED <<text, out, mem, frame>>

Keep(d) == IsBigNum(ret) /\ KeepIn(d, ret)

KeepQuotient(d) == IsDivResult(ret) /\ KeepIn(d, ret.quotient)

KeepRemainder(d) == IsDivResult(ret) /\ KeepIn(d, ret.remainder)

\* The caller destroys what it got back (nothing, for a null pointer).
Discard ==
    /\ pc = "returned"
    /\ pc' = "idle"
    /\ op' = "none"
    /\ ret' = NULL
    /\ UNCHANGED <<n1, n2, n3, text, out, mem, frame>>

Next ==
    \/ Zero
    \/ One
    \/ \E n \in BlockSamples : FromUint32(n)
    \/ \E str \in HexTexts : FromHex(str)
    \/ Add
    \/ Subtract
    \/ Multiply
    \/ DivideWithRemainder
    \/ Divide
    \/ Mod
    \/ PowerMod
    \/ \E d \in 1..3 : Keep(d)
    \/ \E d \in 1..3 : KeepQuotient(d)
    \/ \E d \in 1..3 : KeepRemainder(d)
    \/ Discard

Spec == Init /\ [][Next]_vars

\* The two-operand operations on every pair of a number of up to MaxLen + 1
\* blocks and a number of up to MaxLen blocks.
InitFn ==
    /\ n1 \in BigNums(MaxLen + 1)
    /\ n2 \in BigNums(MaxLen)
    /\ n3 = NULL
    /\ pc = "idle"
    /\ op = "none"
    /\ ret = NULL
    /\ text = NULL
    /\ out = <<>>
    /\ mem = EmptyMem
    /\ frame = NULL

NextFn ==
    \/ Add
    \/ Subtract
    \/ Multiply
    \/ DivideWithRemainder
    \/ Divide
    \/ Mod
    \/ Discard

SpecFn == InitFn /\ [][NextFn]_vars

----
\* Comparison of every pair of a number of up to MaxLen + 1 blocks and a
\* number of up to MaxLen blocks.

\* An int that a function has returned.
IntResult(v) == [int |-> v]

IsInt(p) == "int" \in DOMAIN p

\* The int of a C comparison expression.
Truth(b) == IF b THEN 1 ELSE 0

Compare ==
    /\ pc = "idle"
    /\ ~IsNull(n1) /\ ~IsNull(n2)
    /\ Returned("bn_compare", IntResult(bn_compare(n1, n2)))

GreaterThan ==
    /\ pc = "idle"
    /\ ~IsNull(n1) /\ ~IsNull(n2)
    /\ Returned("bn_greater_than", IntResult(Truth(bn_greater_than(n1, n2))))

LessThan ==
    /\ pc = "idle"
    /\ ~IsNull(n1) /\ ~IsNull(n2)
    /\ Returned("bn_less_than", IntResult(Truth(bn_less_than(n1, n2))))

EqualTo ==
    /\ pc = "idle"
    /\ ~IsNull(n1) /\ ~IsNull(n2)
    /\ Returned("bn_equal_to", IntResult(Truth(bn_equal_to(n1, n2))))

NextCmp ==
    \/ Compare
    \/ GreaterThan
    \/ LessThan
    \/ EqualTo
    \/ Discard

SpecCmp == InitFn /\ [][NextCmp]_vars

----
\* Parsing and printing: the caller parses a text, keeps the number, prints
\* it, and parses what was printed.

\* Longest text the caller starts from, in characters.
MaxText == 5

Chars(seq) == {seq[i] : i \in 1..Len(seq)}

\* The characters of the texts: the hex characters, the space and a
\* character that is neither.
TextChars == Chars(DecimalChars) \cup Chars(LowerChars) \cup Chars(UpperChars)
                 \cup {" ", "g"}

Texts(maxlen) ==
    {NULL} \cup {CString(chars) : chars \in UNION {[1..k -> TextChars] : k \in 0..maxlen}}

\* A line of output without the newline that ends it.
Line(chars) ==
    IF Len(chars) > 0 /\ chars[Len(chars)] = "\n"
    THEN SubSeq(chars, 1, Len(chars) - 1)
    ELSE chars

PrintHex ==
    /\ pc = "idle"
    /\ ~IsNull(n1)
    /\ out = <<>>
    /\ out' = out \o bn_print_hex(n1)
    /\ pc' = "returned"
    /\ op' = "bn_print_hex"
    /\ ret' = NULL
    /\ UNCHANGED <<n1, n2, n3, text, mem, frame>>

\* The caller takes what was printed as its next text: all of it, or the
\* line without its newline.
ReadOutput(whole) ==
    /\ pc = "idle"
    /\ out # <<>>
    /\ text' = CString(IF whole THEN out ELSE Line(out))
    /\ out' = <<>>
    /\ UNCHANGED <<n1, n2, n3, pc, op, ret, mem, frame>>

InitHex ==
    /\ n1 = NULL
    /\ n2 = NULL
    /\ n3 = NULL
    /\ pc = "idle"
    /\ op = "none"
    /\ ret = NULL
    /\ text \in Texts(MaxText)
    /\ out = <<>>
    /\ mem = EmptyMem
    /\ frame = NULL

NextHex ==
    \/ FromHex(text)
    \/ Keep(1)
    \/ PrintHex
    \/ \E whole \in BOOLEAN : ReadOutput(whole)
    \/ Discard

SpecHex == InitHex /\ [][NextHex]_vars

----
\* The caller on the heap: n1, n2, n3 and ret are pointers into mem.  The
\* caller has constructed its numbers, two of which may be one and the same
\* BigNum; it calls one operation at a time on them and destroys what the
\* operation returned.

Ptr(a) == [ptr |-> a]

IsPtr(p) == "ptr" \in DOMAIN p

ToPtr(a) == IF a = 0 THEN NULL ELSE Ptr(a)

Addr(p) == IF IsPtr(p) THEN p.ptr ELSE 0

\* The numbers on the heap when the caller starts: their blocks are the
\* smallest value of a block or the largest.
MemNums(maxlen) ==
    {n \in BigNums(maxlen) : \A i \in 1..n.len : n.data[i] \in {0, BN_BLOCK_MAX}}

InitMem ==
    \E a \in MemNums(MaxLen), b \in MemNums(MaxLen), c \in MemNums(1),
       same2 \in BOOLEAN, same3 \in 0..2, moves \in BOOLEAN :
        LET o1 == NewNum([EmptyMem EXCEPT !.moves = moves], a.data)
            o2 == IF same2 THEN o1 ELSE NewNum(o1.mem, b.data)
            o3 == IF same3 = 1 THEN Out(o2.mem, o1.ptr)
                  ELSE IF same3 = 2 THEN o2
                  ELSE NewNum(o2.mem, c.data)
        IN  /\ n1 = Ptr(o1.ptr)
            /\ n2 = Ptr(o2.ptr)
            /\ n3 = Ptr(o3.ptr)
            /\ mem = o3.mem
            /\ pc = "idle"
            /\ op = "none"
            /\ ret = NULL
            /\ text = NULL
            /\ out = <<>>
            /\ frame = NULL

ReturnedMem(name, o) ==
    /\ pc' = IF o.mem.fault = "none" THEN "returned" ELSE "aborted"
    /\ op' = name
    /\ ret' = ToPtr(o.ptr)
    /\ mem' = o.mem
    /\ UNCHANGED <<n1, n2, n3, text, out, frame>>

ZeroMem ==
    /\ pc = "idle"
    /\ ReturnedMem("bn_zero", bn_zero_mem(mem))

OneMem ==
    /\ pc = "idle"
    /\ ReturnedMem("bn_one", bn_one_mem(mem))

FromUint32Mem(n) ==
    /\ pc = "idle"
    /\ ReturnedMem("bn_from_uint32_t", bn_from_uint32_t_mem(mem, n))

FromHexMem(str) ==
    /\ pc = "idle"
    /\ ReturnedMem("bn_from_hex", bn_from_hex_mem(mem, str))

CopyMem ==
    /\ pc = "idle"
    /\ ReturnedMem("bn_copy", bn_copy_mem(mem, Addr(n1)))

\* bn_compare or one of its three predicates.
CompareMem(name) ==
    /\ pc = "idle"
    /\ mem' = bn_compare_mem(mem, Addr(n1), Addr(n2))
    /\ pc' = IF mem'.fault = "none" THEN "returned" ELSE "aborted"
    /\ op' = name
    /\ ret' = LET a == NumAt(mem, Addr(n1))
                  b == NumAt(mem, Addr(n2))
              IN  IntResult(CASE name = "bn_compare" -> bn_compare(a, b)
                              [] name = "bn_greater_than" -> Truth(bn_greater_than(a, b))
                              [] name = "bn_less_than" -> Truth(bn_less_than(a, b))
                              [] name = "bn_equal_to" -> Truth(bn_equal_to(a, b)))
    /\ UNCHANGED <<n1, n2, n3, text, out, frame>>

PrintHexMem ==
    /\ pc = "idle"
    /\ out = <<>>
    /\ mem' = bn_print_hex_mem(mem, Addr(n1))
    /\ out' = out \o bn_print_hex(NumAt(mem, Addr(n1)))
    /\ pc' = IF mem'.fault = "none" THEN "returned" ELSE "aborted"
    /\ op' = "bn_print_hex"
    /\ ret' = NULL
    /\ UNCHANGED <<n1, n2, n3, text, frame>>

AddMem ==
    /\ pc = "idle"
    /\ ReturnedMem("bn_add", bn_add_mem(mem, Addr(n1), Addr(n2)))

SubtractMem ==
    /\ pc = "idle"
    /\ ReturnedMem("bn_subtract", bn_subtract_mem(mem, Addr(n1), Addr(n2)))

MultiplyMem ==
    /\ pc = "idle"
    /\ ReturnedMem("bn_multiply", bn_multiply_mem(mem, Addr(n1), Addr(n2)))

DivideWithRemainderMem ==
    /\ pc = "idle"
    /\ ReturnedMem("bn_divide_with_remainder",
                   bn_divide_with_remainder_mem(mem, Addr(n1), Addr(n2)))

DivideMem ==
    /\ pc = "idle"
    /\ ReturnedMem("bn_divide", bn_divide_mem(mem, Addr(n1), Addr(n2)))

ModMem ==
    /\ pc = "idle"
    /\ ReturnedMem("bn_mod", bn_mod_mem(mem, Addr(n1), Addr(n2)))

\* The caller's n3 is the base, n2 the exponent and n1 the modulus.
PowerModMem ==
    /\ pc = "idle"
    /\ ReturnedMem("bn_power_mod", bn_power_mod_mem(mem, Addr(n3), Addr(n2), Addr(n1)))

\* The caller destroys what it got back: nothing for a null pointer or an
\* int, a BigNum with bn_destroy, and a division result by destroying its
\* two numbers and freeing the struct.
DestroyMem ==
    /\ pc = "returned"
    /\ mem' = IF ~IsPtr(ret) THEN mem
              ELSE IF IsKind(mem, ret.ptr, "result")
                   THEN free(bn_destroy_mem(bn_destroy_mem(mem, mem.cells[ret.ptr].quotient),
                                            mem.cells[ret.ptr].remainder),
                             ret.ptr)
                   ELSE bn_destroy_mem(mem, ret.ptr)
    /\ pc' = IF mem'.fault = "none" THEN "idle" ELSE "aborted"
    /\ op' = "none"
    /\ ret' = NULL
    /\ UNCHANGED <<n1, n2, n3, text, out, frame>>

NextMem ==
    \/ ZeroMem
    \/ OneMem
    \/ \E n \in BlockSamples : FromUint32Mem(n)
    \/ \E str \in HexTexts : FromHexMem(str)
    \/ CopyMem
    \/ \E name \in {"bn_compare", "bn_greater_than", "bn_less_than", "bn_equal_to"} :
           CompareMem(name)
    \/ PrintHexMem
    \/ AddMem
    \/ SubtractMem
    \/ MultiplyMem
    \/ DivideWithRemainderMem
    \/ DivideMem
    \/ ModMem
    \/ PowerModMem
    \/ DestroyMem

SpecMem == InitMem /\ [][NextMem]_vars

----
\* bn_power_mod followed statement by statement.  n3 is the base, n2 the
\* exponent and n1 the modulus; frame holds result, search_start and the
\* counters of the two loops, pc names the statement that runs next: the
\* start of a pass of the inner loop ("bit"), the statement after the square
\* or the one after the multiplication by base.

\* The end of a pass of the inner loop with the locals f: on to the next
\* bit, or, after the last bit of the last block, bn_trim and the return.
PowerModEndPass(f) ==
    LET done == f.exp_offset = 0 /\ f.exp_bit_offset = 0
        next == IF f.exp_bit_offset > 0
                THEN [f EXCEPT !.exp_bit_offset = f.exp_bit_offset - 1]
                ELSE [f EXCEPT !.exp_offset = f.exp_offset - 1,
                               !.exp_bit_offset = BlockBits - 1]
    IN  /\ pc' = IF IsAborted(f.result) THEN "aborted"
                 ELSE IF done THEN "returned"
                 ELSE "bit"
        /\ frame' = IF IsAborted(f.result) \/ done THEN f ELSE next
        /\ ret' = IF done /\ ~IsAborted(f.result) THEN bn_trim(f.result) ELSE ret
        /\ UNCHANGED <<n1, n2, n3, op, text, out, mem>>

\* The call up to the first pass of the loops.
PowerModCall ==
    /\ pc = "idle"
    /\ op' = "bn_power_mod"
    /\ IF n1.len = 1 /\ n1.data[1] = 0
       THEN /\ pc' = "returned"
            /\ frame' = NULL
       ELSE /\ pc' = "bit"
            /\ frame' = [result |-> bn_one, search_start |-> TRUE,
                         exp_offset |-> n2.len - 1, exp_bit_offset |-> BlockBits - 1]
    /\ UNCHANGED <<n1, n2, n3, ret, text, out, mem>>

\* continue: a zero bit above the first one bit.
PowerModSkip ==
    /\ pc = "bit"
    /\ frame.search_start
    /\ ~BitSet(n2.data[frame.exp_offset + 1], frame.exp_bit_offset)
    /\ PowerModEndPass(frame)

\* result = bn_multiply(result, result)
PowerModSquare ==
    /\ pc = "bit"
    /\ ~frame.search_start \/ BitSet(n2.data[frame.exp_offset + 1], frame.exp_bit_offset)
    /\ frame' = [frame EXCEPT !.search_start = FALSE,
                              !.result = bn_multiply(frame.result, frame.result)]
    /\ pc' = IF IsAborted(frame'.result) THEN "aborted" ELSE "squared"
    /\ UNCHANGED <<n1, n2, n3, op, ret, text, out, mem>>

\* if (bit) result = bn_multiply(result, base)
PowerModMultiply ==
    /\ pc = "squared"
    /\ BitSet(n2.data[frame.exp_offset + 1], frame.exp_bit_offset)
    /\ frame' = [frame EXCEPT !.result = bn_multiply(frame.result, n3)]
    /\ pc' = IF IsAborted(frame'.result) THEN "aborted" ELSE "multiplied"
    /\ UNCHANGED <<n1, n2, n3, op, ret, text, out, mem>>

\* The pass of the inner loop that ends without bn_mod when the bit is not
\* set.
PowerModReduceIfMultiplied ==
    /\ \/ pc = "squared" /\ ~BitSet(n2.data[frame.exp_offset + 1], frame.exp_bit_offset)
       \/ pc = "multiplied"
    /\ PowerModEndPass([frame EXCEPT !.result = IF pc = "multiplied"
                                                THEN bn_mod(frame.result, n1)
                                                ELSE frame.result])

\* result = bn_mod(result, mod), the last statement of a pass.
PowerModReduce ==
    /\ \/ pc = "squared" /\ ~BitSet(n2.data[frame.exp_offset + 1], frame.exp_bit_offset)
       \/ pc = "multiplied"
    /\ PowerModEndPass([frame EXCEPT !.result = bn_mod(frame.result, n1)])

\* Every single-block base, and every exponent and modulus of up to MaxLen
\* blocks.
InitPow ==
    /\ n1 \in BigNums(MaxLen)
    /\ n2 \in BigNums(MaxLen)
    /\ n3 \in BigNums(1)
    /\ pc = "idle"
    /\ op = "none"
    /\ ret = NULL
    /\ text = NULL
    /\ out = <<>>
    /\ mem = EmptyMem
    /\ frame = NULL

NextPow ==
    \/ PowerModCall
    \/ PowerModSkip
    \/ PowerModSquare
    \/ PowerModMultiply
    \/ PowerModReduce
    \/ Discard

SpecPow == InitPow /\ [][NextPow]_vars

----
\* bn_subtract and bn_divide_with_remainder followed pass by pass of their
\* loop over the blocks of n1.  For bn_subtract frame holds result, transfer
\* and offset; for bn_divide_with_remainder quotient, remainder and _offset.

\* The call up to the first pass of the loop.
SubtractCall ==
    /\ pc = "idle"
    /\ op' = "bn_subtract"
    /\ IF bn_greater_than(n2, n1)
       THEN /\ pc' = "returned"
            /\ frame' = NULL
       ELSE /\ pc' = "subtract"
            /\ frame' = [result |-> bn_with_len(n1.len), transfer |-> 0, offset |-> 0]
    /\ ret' = NULL
    /\ UNCHANGED <<n1, n2, n3, text, out, mem>>

\* The pass of the loop that resets the transfer even when adding it to the
\* block of n2 overflowed.
SubtractBlockReset ==
    /\ pc = "subtract"
    /\ LET n1_block == bn_get_block_unchecked(n1, frame.offset)
           n2_block == (bn_get_block(n2, frame.offset) + frame.transfer) % BlockBase
           block_diff == IF n1_block >= n2_block
                         THEN n1_block - n2_block
                         ELSE (BN_BLOCK_MAX - n2_block + 1 + n1_block) % BlockBase
           written == bn_write_block(frame.result, frame.offset, block_diff)
       IN  /\ frame' = [result |-> written,
                        transfer |-> IF n1_block >= n2_block THEN 0 ELSE 1,
                        offset |-> frame.offset + 1]
           /\ pc' = IF frame.offset + 1 < n1.len THEN "subtract" ELSE "returned"
           /\ ret' = IF frame.offset + 1 < n1.len THEN ret ELSE bn_trim(written)
    /\ UNCHANGED <<n1, n2, n3, op, text, out, mem>>

\* One pass of the loop and, after the last one, bn_trim and the return.
SubtractBlock ==
    /\ pc = "subtract"
    /\ LET n1_block == bn_get_block_unchecked(n1, frame.offset)
           n2_read == bn_get_block(n2, frame.offset)
           \* n2_block += transfer, in uint32_t
           n2_block == IF frame.transfer # 0
                       THEN (n2_read + frame.transfer) % BlockBase
                       ELSE n2_read
           \* transfer is reset only if the addition did not overflow
           kept == IF frame.transfer # 0 /\ n2_block # 0 THEN 0 ELSE frame.transfer
           block_diff == IF n1_block >= n2_block
                         THEN n1_block - n2_block
                         ELSE (BN_BLOCK_MAX - n2_block + 1 + n1_block) % BlockBase
           written == bn_write_block(frame.result, frame.offset, block_diff)
       IN  /\ frame' = [result |-> written,
                        transfer |-> IF n1_block >= n2_block THEN kept ELSE 1,
                        offset |-> frame.offset + 1]
           /\ pc' = IF frame.offset + 1 < n1.len THEN "subtract" ELSE "returned"
           /\ ret' = IF frame.offset + 1 < n1.len THEN ret ELSE bn_trim(written)
    /\ UNCHANGED <<n1, n2, n3, op, text, out, mem>>

\* The call up to the first pass of the loop.
DivideCall ==
    /\ pc = "idle"
    /\ op' = "bn_divide_with_remainder"
    /\ IF n2.len = 1 /\ n2.data[1] = 0
       THEN /\ pc' = "returned"
            /\ frame' = NULL
       ELSE /\ pc' = "divide"
            /\ frame' = [quotient |-> bn_with_len(IF n1.len > n2.len
                                                  THEN n1.len - (n2.len - 1)
                                                  ELSE 1),
                         remainder |-> bn_zero,
                         _offset |-> n1.len]
    /\ ret' = NULL
    /\ UNCHANGED <<n1, n2, n3, text, out, mem>>

\* The pass of the loop that does not trim the shifted remainder.
DividePassUntrimmed ==
    /\ pc = "divide"
    /\ LET st == bn_divide_step_untrimmed(n1, n2, frame, frame._offset - 1)
           aborted == IsAborted(st.quotient) \/ IsAborted(st.remainder)
       IN  /\ frame' = [quotient |-> st.quotient, remainder |-> st.remainder,
                        _offset |-> frame._offset - 1]
           /\ pc' = IF aborted THEN "aborted"
                    ELSE IF frame._offset > 1 THEN "divide"
                    ELSE "returned"
           /\ ret' = IF aborted \/ frame._offset > 1 THEN ret
                     ELSE DivideWithRemainderResult(bn_trim(st.quotient),
                                                    bn_trim(st.remainder))
    /\ UNCHANGED <<n1, n2, n3, op, text, out, mem>>

\* One pass of the loop and, after the last one, the trims and the return.
DividePass ==
    /\ pc = "divide"
    /\ LET st == bn_divide_step(n1, n2, frame, frame._offset - 1)
           aborted == IsAborted(st.quotient) \/ IsAborted(st.remainder)
       IN  /\ frame' = [quotient |-> st.quotient, remainder |-> st.remainder,
                        _offset |-> frame._offset - 1]
           /\ pc' = IF aborted THEN "aborted"
                    ELSE IF frame._offset > 1 THEN "divide"
                    ELSE "returned"
           /\ ret' = IF aborted \/ frame._offset > 1 THEN ret
                     ELSE DivideWithRemainderResult(bn_trim(st.quotient),
                                                    bn_trim(st.remainder))
    /\ UNCHANGED <<n1, n2, n3, op, text, out, mem>>

NextStep ==
    \/ SubtractCall
    \/ SubtractBlock
    \/ DivideCall
    \/ DividePass
    \/ Discard

SpecStep == InitFn /\ [][NextStep]_vars

----
\* The number a BigNum stands for.
RECURSIVE ValueFrom(_, _)
ValueFrom(data, i) ==
    IF i > Len(data) THEN 0 ELSE data[i] + BlockBase * ValueFrom(data, i + 1)

Value(n) == ValueFrom(n.data, 1)

IsCanonical(n) ==
    /\ n.len >= 1
    /\ Len(n.data) = n.len
    /\ n.len = 1 \/ n.data[n.len] # 0

IsZero(n) == n.len = 1 /\ n.data[1] = 0

\* (b ^ e) mod m
RECURSIVE ModExp(_, _, _)
ModExp(b, e, m) ==
    IF e = 0 THEN 1 % m ELSE (ModExp(b, e - 1, m) * (b % m)) % m

Max(x, y) == IF x > y THEN x ELSE y

HexDigitChars == Chars(DecimalChars) \cup Chars(LowerChars) \cup Chars(UpperChars)

\* The hex digits of a text, its spaces removed.
HexDigits(chars) == SelectSeq(chars, LAMBDA c : c # " ")

\* The value of one hex digit: a letter counts the same in both cases.
DigitValue(c) ==
    IF c \in Chars(DecimalChars)
    THEN (CHOOSE i \in 1..Len(DecimalChars) : DecimalChars[i] = c) - 1
    ELSE Len(DecimalChars) - 1
         + (CHOOSE i \in 1..Len(LowerChars) : LowerChars[i] = c \/ UpperChars[i] = c)

\* The number a string of hex digits stands for, most significant first.
RECURSIVE TextValueFrom(_, _, _)
TextValueFrom(digits, i, acc) ==
    IF i > Len(digits)
    THEN acc
    ELSE TextValueFrom(digits, i + 1, acc * NumHexValues + DigitValue(digits[i]))

TextValue(digits) == TextValueFrom(digits, 1, 0)

ToLower(chars) ==
    [i \in 1..Len(chars) |->
        IF chars[i] \in Chars(UpperChars)
        THEN LowerChars[CHOOSE j \in 1..Len(UpperChars) : UpperChars[j] = chars[i]]
        ELSE chars[i]]

ToUpper(chars) ==
    [i \in 1..Len(chars) |->
        IF chars[i] \in Chars(LowerChars)
        THEN UpperChars[CHOOSE j \in 1..Len(LowerChars) : LowerChars[j] = chars[i]]
        ELSE chars[i]]

\* The text with a space put in after its first i characters.
WithSpaceAt(chars, i) == SubSeq(chars, 1, i) \o <<" ">> \o SubSeq(chars, i + 1, Len(chars))

----
\* C1: every BigNum that an operation has returned, the ones the caller
\* still holds and the one just returned (both halves of a division result),
\* is canonical: its length is at least 1, and its length is 1 or its most
\* significant block is not zero.
C1_ReturnedCanonical ==
    /\ IsBigNum(n1) => IsCanonical(n1)
    /\ IsBigNum(n2) => IsCanonical(n2)
    /\ IsBigNum(n3) => IsCanonical(n3)
    /\ IsBigNum(ret) => IsCanonical(ret)
    /\ IsDivResult(ret) => IsCanonical(ret.quotient) /\ IsCanonical(ret.remainder)

\* A division of two-block numbers that the caller got from earlier
\* operations, whose remainder had to be trimmed to one block.
C1_Witness ==
    /\ op = "bn_divide_with_remainder"
    /\ IsDivResult(ret)
    /\ n1.len = 2 /\ n2.len = 2
    /\ ret.remainder.len = 1 /\ ~IsZero(ret.remainder)
    /\ ret.quotient = bn_one

\* C2: for a non-zero b, bn_add(bn_multiply(bn_divide(a, b), b), bn_mod(a, b))
\* is equal to a under bn_equal_to.
C2_DivideMultiplyRoundTrip ==
    (op = "bn_divide" /\ ~IsZero(n2)) =>
        /\ IsBigNum(ret)
        /\ bn_equal_to(bn_add(bn_multiply(ret, n2), bn_mod(n1, n2)), n1)

\* A three-block number divided by a two-block number, with a two-block
\* quotient and a remainder that is not zero.
C2_Witness ==
    /\ op = "bn_divide"
    /\ IsBigNum(ret)
    /\ n1.len = 3 /\ n2.len = 2 /\ ret.len = 2
    /\ ~IsZero(bn_mod(n1, n2))

\* C3: for a non-zero b the remainder of bn_divide_with_remainder(a, b) and
\* of bn_mod(a, b) is less than b under bn_compare; when a < b the quotient
\* is zero and the remainder equals a.
C3_RemainderBelowDivisor ==
    /\ (op = "bn_divide_with_remainder" /\ ~IsZero(n2)) =>
           /\ IsDivResult(ret)
           /\ bn_compare(ret.remainder, n2) < 0
           /\ bn_compare(n1, n2) < 0 =>
                  IsZero(ret.quotient) /\ bn_equal_to(ret.remainder, n1)
    /\ (op = "bn_mod" /\ ~IsZero(n2)) =>
           /\ IsBigNum(ret)
           /\ bn_compare(ret, n2) < 0
           /\ bn_compare(n1, n2) < 0 => bn_equal_to(ret, n1)

\* A division with a multi-block quotient whose remainder is b - 1.
C3_Witness ==
    /\ op = "bn_divide_with_remainder"
    /\ IsDivResult(ret)
    /\ n1.len = 3 /\ n2.len = 2
    /\ ret.quotient.len = 2
    /\ Value(ret.remainder) = Value(n2) - 1

C5_AddValue ==
    op = "bn_add" =>
        LET len == Max(n1.len, n2.len)
        IN  /\ IsBigNum(ret)
            /\ Value(ret) = Value(n1) + Value(n2)
            /\ Value(n1) + Value(n2) >= BlockBase ^ len =>
                   ret.len = len + 1 /\ ret.data[len + 1] = 1
            /\ Value(n1) + Value(n2) < BlockBase ^ len => ret.len <= len
            /\ (n1.data = <<BN_BLOCK_MAX>> /\ n2.data = <<BN_BLOCK_MAX>>) =>
                   ret.data = <<BN_BLOCK_MAX - 1, 1>>

\* Operands of different lengths whose sum carries out of the top block of
\* the longer one.
C5_Witness ==
    /\ op = "bn_add"
    /\ n1.len = 3 /\ n2.len = 1
    /\ IsBigNum(ret)
    /\ ret.len = 4 /\ ret.data[4] = 1

\* C6: the value of bn_multiply(a, b) is value(a) * value(b); the square of
\* a single all-ones block is [high = all-ones - 1, low = 1].
C6_MultiplyValue ==
    op = "bn_multiply" =>
        /\ IsBigNum(ret)
        /\ Value(ret) = Value(n1) * Value(n2)
        /\ (n1.data = <<BN_BLOCK_MAX>> /\ n2.data = <<BN_BLOCK_MAX>>) =>
               ret.data = <<1, BN_BLOCK_MAX - 1>>

\* A product of all-ones operands, whose partial products carry through
\* every block of the result.
C6_Witness ==
    /\ op = "bn_multiply"
    /\ n1.data = <<BN_BLOCK_MAX, BN_BLOCK_MAX, BN_BLOCK_MAX>>
    /\ n2.data = <<BN_BLOCK_MAX, BN_BLOCK_MAX>>
    /\ IsBigNum(ret)
    /\ ret.len = 5

\* C7: for a non-zero modulus, bn_power_mod(base, exponent, modulus) is the
\* BigNum whose value is (base ^ exponent) mod modulus, for every exponent
\* (zero included) and every modulus (1 included).
C7_PowerModValue ==
    (op = "bn_power_mod" /\ ~IsZero(n1)) =>
        /\ IsBigNum(ret)
        /\ Value(ret) = ModExp(Value(n3), Value(n2), Value(n1))

C9_NullIffZeroDivisor ==
    /\ op = "bn_divide_with_remainder" =>
           /\ IsNull(ret) <=> Value(n2) = 0
           /\ Value(n2) # 0 => IsDivResult(ret)
    /\ op \in {"bn_divide", "bn_mod"} =>
           /\ IsNull(ret) <=> Value(n2) = 0
           /\ Value(n2) # 0 => IsBigNum(ret)
    /\ op = "bn_power_mod" =>
           /\ IsNull(ret) <=> Value(n1) = 0
           /\ Value(n1) # 0 => IsBigNum(ret)

\* A division by a two-block divisor whose lowest block is zero returns a
\* value.
C9_Witness ==
    /\ op = "bn_divide_with_remainder"
    /\ n2.len = 2 /\ n2.data[1] = 0
    /\ IsDivResult(ret)

C11_FromHexNullIffInvalid ==
    op = "bn_from_hex" =>
        LET invalid ==
                \/ IsNull(text)
                \/ ~ \E i \in 1..Len(text.chars) : text.chars[i] \in HexDigitChars
                \/ \E i \in 1..Len(text.chars) : text.chars[i] \notin HexDigitChars \cup {" "}
        IN  /\ IsNull(ret) <=> invalid
            /\ ~invalid => IsBigNum(ret)

\* A text refused for one invalid character among its hex digits.
C11_Witness ==
    /\ op = "bn_from_hex"
    /\ ~IsNull(text)
    /\ \E i \in 1..Len(text.chars) : text.chars[i] \in HexDigitChars
    /\ Cardinality({i \in 1..Len(text.chars) : text.chars[i] \notin HexDigitChars \cup {" "}}) = 1
    /\ IsNull(ret)

\* C12: the value of bn_from_hex(text) is the number its hex digits stand
\* for, most significant first, spaces removed; removing the spaces, putting
\* a space in anywhere, changing the case of the letters or putting a zero
\* digit in front does not change the result; a most significant group of
\* fewer digits than fill a block is a block of its own.
C12_FromHexValue ==
    (op = "bn_from_hex" /\ IsBigNum(ret)) =>
        LET chars == text.chars
            digits == HexDigits(chars)
            top == Len(digits) % HexCharsPerBlock
        IN  /\ Value(ret) = TextValue(digits)
            /\ bn_from_hex(CString(digits)) = ret
            /\ \A i \in 0..Len(chars) : bn_from_hex(CString(WithSpaceAt(chars, i))) = ret
            /\ bn_from_hex(CString(ToLower(chars))) = ret
            /\ bn_from_hex(CString(ToUpper(chars))) = ret
            /\ bn_from_hex(CString(<<DecimalChars[1]>> \o chars)) = ret
            /\ (top # 0 /\ DigitValue(digits[1]) # 0) =>
                   /\ ret.len = Len(digits) \div HexCharsPerBlock + 1
                   /\ ret.data[ret.len] = TextValue(SubSeq(digits, 1, top))

\* A text with a space and an upper-case letter whose digits do not fill
\* the most significant block.
C12_Witness ==
    /\ op = "bn_from_hex"
    /\ IsBigNum(ret)
    /\ " " \in Chars(text.chars)
    /\ Chars(text.chars) \cap Chars(UpperChars) # {}
    /\ Len(HexDigits(text.chars)) % HexCharsPerBlock # 0
    /\ ret.len = Len(HexDigits(text.chars)) \div HexCharsPerBlock + 1

\* C13 as stated: parsing the text bn_print_hex writes for a parsed number
\* gives a number equal to it.
C13_HexRoundTrip ==
    (op = "bn_from_hex" /\ IsBigNum(n1) /\ text = CString(bn_print_hex(n1))) =>
        IsBigNum(ret) /\ bn_equal_to(ret, n1)

\* C13 amended: parsing the line bn_print_hex writes for a parsed number,
\* without the newline that ends it, gives a number equal to it.
C13_HexRoundTripLine ==
    (op = "bn_from_hex" /\ IsBigNum(n1) /\ text = CString(Line(bn_print_hex(n1)))) =>
        IsBigNum(ret) /\ bn_equal_to(ret, n1) /\ ret = n1

\* The printed line of a two-block number whose low block is printed with
\* leading zero digits, parsed again.
C13_Witness ==
    /\ op = "bn_from_hex"
    /\ IsBigNum(n1)
    /\ n1.len = 2 /\ n1.data[1] = 1
    /\ text = CString(Line(bn_print_hex(n1)))
    /\ ret = n1

\* C14: for canonical a and b, bn_compare(a, b) is positive, zero or
\* negative exactly when value(a) is greater than, equal to or less than
\* value(b); the longer operand is the greater one, and operands of equal
\* length are ordered by the most significant block at which they differ.
C14_CompareValue ==
    (op = "bn_compare" /\ IsCanonical(n1) /\ IsCanonical(n2)) =>
        LET differ == {i \in 1..Max(n1.len, n2.len) :
                          bn_get_block(n1, i - 1) # bn_get_block(n2, i - 1)}
            top == CHOOSE i \in differ : \A j \in differ : j <= i
        IN  /\ IsInt(ret)
            /\ ret.int > 0 <=> Value(n1) > Value(n2)
            /\ ret.int = 0 <=> Value(n1) = Value(n2)
            /\ ret.int < 0 <=> Value(n1) < Value(n2)
            /\ n1.len > n2.len => ret.int > 0
            /\ n1.len < n2.len => ret.int < 0
            /\ (n1.len = n2.len /\ differ # {}) =>
                   (ret.int > 0 <=> n1.data[top] > n2.data[top])

\* The longer operand is the greater one although each of its blocks is
\* smaller than the most significant block of the other.
C14_Witness ==
    /\ op = "bn_compare"
    /\ n1.len = 3 /\ n2.len = 2
    /\ \A i \in 1..3 : n1.data[i] < n2.data[2]
    /\ ret = IntResult(1)

\* C15: exactly one of bn_less_than(a, b), bn_equal_to(a, b) and
\* bn_greater_than(a, b) is true, each agrees with the sign of
\* bn_compare(a, b), bn_greater_than(a, b) holds iff bn_less_than(b, a)
\* holds, and bn_equal_to(a, b) iff bn_equal_to(b, a).
C15_PredicatesConsistent ==
    (op \in {"bn_less_than", "bn_equal_to", "bn_greater_than"}) =>
        LET lt == IF op = "bn_less_than" THEN ret.int # 0 ELSE bn_less_than(n1, n2)
            eq == IF op = "bn_equal_to" THEN ret.int # 0 ELSE bn_equal_to(n1, n2)
            gt == IF op = "bn_greater_than" THEN ret.int # 0 ELSE bn_greater_than(n1, n2)
        IN  /\ IsInt(ret)
            /\ Truth(lt) + Truth(eq) + Truth(gt) = 1
            /\ lt <=> bn_compare(n1, n2) < 0
            /\ eq <=> bn_compare(n1, n2) = 0
            /\ gt <=> bn_compare(n1, n2) > 0
            /\ gt <=> bn_less_than(n2, n1)
            /\ lt <=> bn_greater_than(n2, n1)
            /\ eq <=> bn_equal_to(n2, n1)

\* bn_less_than holds of two-block operands that differ only in the low
\* block.
C15_Witness ==
    /\ op = "bn_less_than"
    /\ n1.len = 2 /\ n2.len = 2
    /\ n1.data[2] = n2.data[2]
    /\ ret = IntResult(1)

\* C16: for canonical a and b, of equal or different lengths, bn_add(a, b)
\* equals bn_add(b, a) and bn_multiply(a, b) equals bn_multiply(b, a), block
\* for block.
C16_Commutative ==
    /\ op = "bn_add" => IsBigNum(ret) /\ ret = bn_add(n2, n1)
    /\ op = "bn_multiply" => IsBigNum(ret) /\ ret = bn_multiply(n2, n1)

\* A sum of operands of different lengths, neither of them zero, that
\* carries into a new block.
C16_Witness ==
    /\ op = "bn_add"
    /\ n1.len = 3 /\ n2.len = 2
    /\ ~IsZero(n2)
    /\ IsBigNum(ret)
    /\ ret.len = 4

\* C17: for canonical a, bn_add(a, zero) and bn_add(zero, a) equal a,
\* bn_multiply(a, one) and bn_multiply(one, a) equal a, and
\* bn_multiply(a, zero) and bn_multiply(zero, a) equal the single-block zero.
C17_Identities ==
    /\ (op = "bn_add" /\ n2 = bn_zero) => ret = n1
    /\ (op = "bn_add" /\ n1 = bn_zero) => ret = n2
    /\ (op = "bn_multiply" /\ n2 = bn_one) => ret = n1
    /\ (op = "bn_multiply" /\ n1 = bn_one) => ret = n2
    /\ (op = "bn_multiply" /\ n2 = bn_zero) => ret = bn_zero
    /\ (op = "bn_multiply" /\ n1 = bn_zero) => ret = bn_zero

\* A three-block number multiplied by zero: the run of four zero blocks is
\* trimmed to one.
C17_Witness ==
    /\ op = "bn_multiply"
    /\ n1.len = 3
    /\ n2 = bn_zero
    /\ ret = bn_zero

\* The cells of the number a pointer points to: the struct and its buffer.
NumCells(m, p) ==
    IF IsPtr(p) /\ IsKind(m, p.ptr, "BigNum") THEN {p.ptr, m.cells[p.ptr].data} ELSE {}

\* The cells of what an operation returned: those of a number, or the struct
\* of a division result with those of its two numbers.
RetCells(m, p) ==
    IF IsPtr(p) /\ IsKind(m, p.ptr, "result")
    THEN {p.ptr} \cup NumCells(m, Ptr(m.cells[p.ptr].quotient))
                 \cup NumCells(m, Ptr(m.cells[p.ptr].remainder))
    ELSE NumCells(m, p)

OperandCells(m) == NumCells(m, n1) \cup NumCells(m, n2) \cup NumCells(m, n3)

LiveCells(m) == {a \in 1..Len(m.cells) : IsLive(m, a)}

\* C18: no operation changes the length or a block of an operand, whether
\* it succeeds or fails, also when one BigNum is passed as more than one
\* operand: over every call, each of the caller's numbers is the same struct
\* with the same buffer and the same blocks.
C18_OperandsUnchanged ==
    [][pc = "idle" =>
           \A p \in {n1, n2, n3} :
               IsPtr(p) =>
                   /\ IsNum(mem', p.ptr)
                   /\ mem'.cells[p.ptr] = mem.cells[p.ptr]
                   /\ NumAt(mem', p.ptr) = NumAt(mem, p.ptr)]_vars

\* bn_power_mod has returned a number for base, exponent and modulus that
\* are one and the same BigNum.
C18_Witness ==
    /\ op = "bn_power_mod"
    /\ pc = "returned"
    /\ IsPtr(n1) /\ n2 = n1 /\ n3 = n1
    /\ NumAt(mem, n1.ptr).len = 2
    /\ IsPtr(ret)

\* C19: what an operation returns is newly allocated: its struct and its
\* buffer (for a division result the struct and both numbers) are live,
\* distinct, and none of them was live before the call, also when the value
\* returned is that of an operand; destroying what was returned leaves
\* every operand a live number with its blocks.
C19_ResultFresh ==
    [][/\ (pc = "idle" /\ IsPtr(ret')) =>
              /\ RetCells(mem', ret') \cap LiveCells(mem) = {}
              /\ RetCells(mem', ret') \subseteq LiveCells(mem')
              /\ Cardinality(RetCells(mem', ret')) =
                     IF op' = "bn_divide_with_remainder" THEN 5 ELSE 2
       /\ pc = "returned" =>
              \A p \in {n1, n2, n3} :
                  IsPtr(p) =>
                      /\ IsNum(mem', p.ptr)
                      /\ NumAt(mem', p.ptr) = NumAt(mem, p.ptr)]_vars

\* bn_mod(a, b) with a < b has returned a number equal to a in storage of
\* its own.
C19_Witness ==
    /\ op = "bn_mod"
    /\ pc = "returned"
    /\ IsPtr(ret) /\ IsPtr(n1) /\ IsPtr(n2)
    /\ bn_less_than(NumAt(mem, n1.ptr), NumAt(mem, n2.ptr))
    /\ NumAt(mem, n1.ptr).len = 2
    /\ NumAt(mem, ret.ptr) = NumAt(mem, n1.ptr)
    /\ RetCells(mem, ret) \cap OperandCells(mem) = {}

\* C20: when bn_divide_with_remainder, bn_divide, bn_mod or bn_power_mod
\* returns, nothing it allocated is live but what it returns, nothing was
\* freed twice and nothing was used after it was freed; a call that fails
\* leaves only the caller's numbers live.
C20_IntermediatesFreed ==
    (op \in {"bn_divide_with_remainder", "bn_divide", "bn_mod", "bn_power_mod"}) =>
        /\ mem.fault = "none"
        /\ pc = "returned"
        /\ LiveCells(mem) = OperandCells(mem) \cup RetCells(mem, ret)
        /\ IsNull(ret) => LiveCells(mem) = OperandCells(mem)

\* bn_power_mod has returned after several passes with a multiply by the
\* base, on a heap whose realloc moves the buffers.
C20_Witness ==
    /\ op = "bn_power_mod"
    /\ pc = "returned"
    /\ IsPtr(ret)
    /\ mem.moves
    /\ NumAt(mem, n2.ptr).data = <<BN_BLOCK_MAX, BN_BLOCK_MAX>>
    /\ NumAt(mem, n1.ptr).len = 2
    /\ NumAt(mem, ret.ptr).len = 2
    /\ LiveCells(mem) = OperandCells(mem) \cup RetCells(mem, ret)

----
\* C21: bn_divide(a, b) is the quotient and bn_mod(a, b) the remainder of
\* bn_divide_with_remainder(a, b), and each of the two returns the null
\* pointer exactly when bn_divide_with_remainder does.
C21_DivideModProjections ==
    op \in {"bn_divide", "bn_mod"} =>
        LET result == bn_divide_with_remainder(n1, n2)
        IN  /\ IsNull(ret) <=> IsNull(result)
            /\ IsDivResult(result) <=> IsBigNum(ret)
            /\ IsDivResult(result) =>
                   ret = IF op = "bn_divide" THEN result.quotient ELSE result.remainder

\* bn_mod of a three-block number by a two-block number, where the quotient
\* and the remainder differ and neither is zero.
C21_Witness ==
    /\ op = "bn_mod"
    /\ IsBigNum(ret)
    /\ n1.len = 3 /\ n2.len = 2
    /\ ~IsZero(ret)
    /\ ~IsZero(bn_divide(n1, n2))
    /\ ret # bn_divide(n1, n2)

----
\* The printed block that starts at character `start` of chars: exactly
\* HexCharsPerBlock digits, none of them an upper case letter, which stand
\* for the block.
IsPrintedBlock(chars, start, block) ==
    LET digits == SubSeq(chars, start, start + HexCharsPerBlock - 1)
    IN  /\ \A i \in 1..HexCharsPerBlock :
               digits[i] \in Chars(DecimalChars) \cup Chars(LowerChars)
        /\ TextValue(digits) = block

\* C22 as stated: the text bn_print_hex writes for a number of n blocks is
\* its blocks, most significant first, each as HexCharsPerBlock lower case
\* hex digits, a single space between consecutive blocks (n - 1 spaces) and
\* then a newline.
C22_PrintHexSeparated ==
    op = "bn_print_hex" =>
        /\ Len(out) = n1.len * HexCharsPerBlock + (n1.len - 1) + 1
        /\ \A k \in 0..n1.len - 1 :
               IsPrintedBlock(out, k * (HexCharsPerBlock + 1) + 1, n1.data[n1.len - k])
        /\ \A k \in 0..n1.len - 2 :
               out[k * (HexCharsPerBlock + 1) + HexCharsPerBlock + 1] = " "
        /\ out[Len(out)] = "\n"

\* C22 amended: the text is the blocks, most significant first, each as
\* HexCharsPerBlock lower case hex digits followed by a single space (n
\* spaces, the last one after the least significant block), and then a
\* newline.
C22_PrintHexSpaceAfterEach ==
    op = "bn_print_hex" =>
        /\ Len(out) = n1.len * (HexCharsPerBlock + 1) + 1
        /\ \A k \in 0..n1.len - 1 :
               /\ IsPrintedBlock(out, k * (HexCharsPerBlock + 1) + 1, n1.data[n1.len - k])
               /\ out[k * (HexCharsPerBlock + 1) + HexCharsPerBlock + 1] = " "
        /\ out[Len(out)] = "\n"
        /\ \A i \in 1..Len(out) : out[i] \notin Chars(UpperChars)

\* A printed number of two different blocks, the lower one with a leading
\* zero digit and a letter: a space stands before the newline.
C22_Witness ==
    /\ op = "bn_print_hex"
    /\ n1.len = 2
    /\ n1.data[1] = 1 /\ n1.data[2] # 1
    /\ Len(out) > 2
    /\ out[Len(out) - 1] = " "
    /\ out[Len(out) - 2] \in Chars(LowerChars)

----
\* C23: as the header documents it, bn_subtract(n1, n2) returns n2 - n1 as a
\* new number, and an assertion of n1 >= n2 ends the process when it fails.
C23_SubtractAsDocumented ==
    op = "bn_subtract" =>
        /\ Value(n1) >= Value(n2) =>
               IsBigNum(ret) /\ Value(ret) = Value(n2) - Value(n1)
        /\ Value(n1) < Value(n2) => IsAborted(ret)

----
\* C24 as stated: in bn_power_mod the running result is reduced after the
\* square and again after the multiplication by base, so the value that
\* gets multiplied by base is less than the modulus, and no intermediate
\* value exceeds modulus * max(modulus, base).
C24_ReducedAfterEachStep ==
    (op = "bn_power_mod" /\ pc \in {"squared", "multiplied"}) =>
        /\ (pc = "squared" /\ BitSet(n2.data[frame.exp_offset + 1], frame.exp_bit_offset))
               => Value(frame.result) < Value(n1)
        /\ Value(frame.result) <= Value(n1) * Max(Value(n1), Value(n3))

\* C24 amended: the running result is reduced once in every pass, after the
\* square and the multiplication by base.  At the start of a pass it is the
\* initial 1 or less than the modulus; the square, which is the value that
\* gets multiplied by base, is at most max(1, (modulus - 1)^2), the product
\* at most that bound times base; the value returned is bn_power_mod's.
C24_ReducedOncePerPass ==
    op = "bn_power_mod" =>
        LET bound == Max(1, (Value(n1) - 1) * (Value(n1) - 1))
        IN  /\ pc = "bit" =>
                   IF frame.search_start THEN frame.result = bn_one
                   ELSE Value(frame.result) < Value(n1)
            /\ pc = "squared" => Value(frame.result) <= bound
            /\ pc = "multiplied" => Value(frame.result) <= bound * Value(n3)
            /\ pc = "returned" =>
                   /\ ret = bn_power_mod(n3, n2, n1)
                   /\ IsBigNum(ret) => IsZero(n2) \/ Value(ret) < Value(n1)
            /\ pc # "aborted"

\* A square that is not less than the modulus, which is greater than 1, and
\* is about to be multiplied by the base.
C24_Witness ==
    /\ op = "bn_power_mod"
    /\ pc = "squared"
    /\ BitSet(n2.data[frame.exp_offset + 1], frame.exp_bit_offset)
    /\ n1.len = 2 /\ n2.len = 2
    /\ Value(frame.result) >= Value(n1)

----
\* C25: in bn_multiply(a, b), whose result has len(a) + len(b) blocks, every
\* carry chain of the cascading add ends inside the result: the assertion of
\* bn_write_block never fails and no block outside the result is read or
\* written (either would end the process), the call returns, and the blocks
\* returned are those of the product, for operands of all-ones blocks too.
C25_CarryStaysInResult ==
    op = "bn_multiply" =>
        /\ pc # "aborted"
        /\ ~IsAborted(ret)
        /\ IsBigNum(ret)
        /\ ret.len <= n1.len + n2.len
        /\ Value(ret) = Value(n1) * Value(n2)

\* The product of three all-ones blocks and two all-ones blocks, which fills
\* the fifth block of the result.
C25_Witness ==
    /\ op = "bn_multiply"
    /\ n1 = BigNum(3, <<BN_BLOCK_MAX, BN_BLOCK_MAX, BN_BLOCK_MAX>>)
    /\ n2 = BigNum(2, <<BN_BLOCK_MAX, BN_BLOCK_MAX>>)
    /\ IsBigNum(ret)
    /\ ret.len = 5
    /\ ret.data[5] = BN_BLOCK_MAX

----
\* C26: in bn_divide_with_remainder(a, b) with canonical a and canonical
\* non-zero b, the quotient of len(a) - (len(b) - 1) blocks (of one block
\* when a is not longer than b) is large enough: no quotient digit is
\* written outside it, so the assertion of bn_write_block never fails, and
\* the subtraction of the trial product from the remainder is never refused;
\* either would end the process.
C26_QuotientLargeEnough ==
    (op = "bn_divide_with_remainder" /\ IsCanonical(n1) /\ IsCanonical(n2) /\ ~IsZero(n2)) =>
        /\ pc # "aborted"
        /\ ~IsAborted(ret)
        /\ IsDivResult(ret)
        /\ ret.quotient.len <= IF n1.len > n2.len THEN n1.len - (n2.len - 1) ELSE 1
        /\ Value(n1) = Value(ret.quotient) * Value(n2) + Value(ret.remainder)

\* Three all-ones blocks divided by the two-block number of value 2^32 (in
\* the source): the quotient fills both of its blocks.
C26_Witness ==
    /\ op = "bn_divide_with_remainder"
    /\ n1 = BigNum(3, <<BN_BLOCK_MAX, BN_BLOCK_MAX, BN_BLOCK_MAX>>)
    /\ n2 = BigNum(2, <<0, 1>>)
    /\ IsDivResult(ret)
    /\ ret.quotient = BigNum(2, <<BN_BLOCK_MAX, BN_BLOCK_MAX>>)
    /\ ret.remainder = BigNum(1, <<BN_BLOCK_MAX>>)

----
\* C27: in bn_divide_with_remainder, every pass of the outer loop starts and
\* ends with a remainder that is canonical and less than b; so the shifted
\* remainder is less than b * 2^32 (one block more), and the digit the bit
\* search finds, the block of the quotient at the offset of the pass (0 when
\* the shifted remainder is less than b and nothing is searched or written),
\* is the largest d of a block with d * b <= shifted remainder, which is
\* floor(shifted remainder / b); the remainder left is the rest.
C27_DigitIsFloor ==
    [][DividePass =>
          LET offset == frame._offset - 1
              shifted == BigNum(frame.remainder.len + 1,
                                <<n1.data[offset + 1]>> \o frame.remainder.data)
              digit == bn_get_block(frame'.quotient, offset)
          IN  /\ IsCanonical(frame.remainder)
              /\ Value(frame.remainder) < Value(n2)
              /\ Value(shifted) < Value(n2) * BlockBase
              /\ IsCanonical(frame'.remainder)
              /\ Value(frame'.remainder) < Value(n2)
              /\ digit = IF bn_compare(bn_trim(shifted), n2) >= 0
                         THEN block_quotient_search(0, bn_trim(shifted), n2, BlockBits - 1)
                         ELSE 0
              /\ \A d \in 0..BN_BLOCK_MAX : d * Value(n2) <= Value(shifted) <=> d <= digit
              /\ digit = Value(shifted) \div Value(n2)
              /\ Value(frame'.remainder) = Value(shifted) % Value(n2)
              /\ pc' # "aborted"
              /\ pc' = "returned" => ret' = bn_divide_with_remainder(n1, n2)
      ]_vars

\* The last of three passes by a two-block divisor: the remainder of the
\* pass before is not zero, the digit is neither 0 nor the largest block,
\* and a remainder is left.
C27_Witness ==
    /\ op = "bn_divide_with_remainder"
    /\ pc = "returned"
    /\ n1.len = 3 /\ n2.len = 2
    /\ frame._offset = 0
    /\ frame.quotient.data[1] \in 1..BN_BLOCK_MAX - 1
    /\ frame.quotient.data[2] # 0
    /\ ~IsZero(frame.remainder)

----
\* C28: in bn_subtract, for each block with the incoming borrow c, which is
\* 0 or 1, the block stored is (a_block - b_block - c) mod 2^32 and the
\* outgoing borrow is 1 exactly when a_block < b_block + c, computed without
\* wrap-around; when b_block is all ones and c is 1, so that b_block + c
\* wraps to 0, the block stored is a_block and the borrow stays 1; the borrow
\* out of the last block of a is 0 (the loop runs only when a >= b).
C28_BorrowPerBlock ==
    [][SubtractBlock =>
          LET a_block == n1.data[frame.offset + 1]
              b_block == IF frame.offset < n2.len THEN n2.data[frame.offset + 1] ELSE 0
              c == frame.transfer
              stored == frame'.result.data[frame.offset + 1]
          IN  /\ c \in {0, 1}
              /\ stored = (a_block - b_block - c + 2 * BlockBase) % BlockBase
              /\ frame'.transfer = IF a_block < b_block + c THEN 1 ELSE 0
              /\ (b_block = BN_BLOCK_MAX /\ c = 1) =>
                     stored = a_block /\ frame'.transfer = 1
              /\ Value(n1) >= Value(n2)
              /\ frame.offset + 1 = n1.len => frame'.transfer = 0
              /\ pc' = "returned" => ret' = bn_subtract(n1, n2)
      ]_vars

\* After the second of three blocks: the block of b is all ones and the
\* borrow came in, so the block of a was stored as it is and the borrow
\* stays.
C28_Witness ==
    /\ op = "bn_subtract"
    /\ pc = "subtract"
    /\ n1.len = 3
    /\ frame.offset = 2
    /\ n1.data[1] < n2.data[1]
    /\ n2.len = 2 /\ n2.data[2] = BN_BLOCK_MAX
    /\ n1.data[2] # 0
    /\ frame.result.data[2] = n1.data[2]
    /\ frame.transfer = 1

====
